---- MODULE Spec2Model ----
(***************************************************************************)
(* The game lobby of server.py: the roster, the round selector, the        *)
(* scoring of answers, the Scoring/Active toggle and the messages each     *)
(* handler sends.  Times are integers in milliseconds; a color object of   *)
(* the palette is represented by its name (the palette's names are         *)
(* distinct, so dict equality of two palette entries is name equality).    *)
(***************************************************************************)
EXTENDS Integers, Sequences, FiniteSets, TLC

VARIABLES
    players,          \* GameLobby.players: name -> Player record
    roster,           \* insertion order of the players dict (its iteration order)
    round_colors,     \* GameLobby.round_colors (sequence of palette names)
    correct_colors,   \* GameLobby.correct_colors (sequence of palette names)
    state,            \* GameLobby.state: "score" or "question"
    round_start_time, \* GameLobby.round_start_time: None or a time.time() value
    songs,            \* GameLobby.songs: the catalog given to the constructor
    used_songs,       \* GameLobby.used_songs: set of uris
    current_song,     \* GameLobby.current_song: None or an index into songs
    spotify_enabled,  \* the module global set from --no-spotify
    conns,            \* per connection: socket status and handle_client's local `player`
    admin,            \* the handle_admin_input task: "running" or "dead"
    now,              \* the wall clock read by time.time()
    rounds,           \* number of rounds started so far (bounds the exploration)
    ev,               \* the last handler run: its input and what check_answer returned
    sent,             \* the messages that handler sent, in order
    answered_in_round, \* history: the names check_answer has locked in the current round
    first_result,     \* history: per name, what its scored check_answer call returned
    chosen_songs,     \* history: the uri of the catalog entry of every started round
    last_count,       \* history of the sends of the interleaved handlers: per
                      \* connection, the last update_answer_count it was sent
    tasks             \* per coroutine: where it is suspended inside its handler

vars == <<players, roster, round_colors, correct_colors, state, round_start_time,
          songs, used_songs, current_song, spotify_enabled, conns, admin, now,
          rounds, ev, sent, answered_in_round, first_result, chosen_songs, last_count, tasks>>

\* Python's None, for a name, a color or an answer
None == "None"
\* None for Player.websocket (connections are numbered from 1)
NoSocket == 0
\* None for GameLobby.round_start_time (times are >= 0)
NoTime == -1
\* None for GameLobby.current_song (songs are numbered from 1)
NoSong == 0
\* A nullable list in a message: <<>> is null, <<v>> is the list v
Null == <<>>
Some(v) == <<v>>

(***************************************************************************)
(* Bounds of the exploration.                                              *)
(***************************************************************************)
MaxRounds == 2
FillWidth == 2
ShuffleSeeds == 1

(***************************************************************************)
(* Program constants.                                                      *)
(***************************************************************************)
round_duration == 50
TargetCount == 6
MaxScore == 5000
DecayPerSecond == 100

all_colors ==
    <<"Red", "Green", "Blue", "Yellow", "Purple", "Gold", "Silver", "Pink",
      "Black", "White", "Brown", "Orange", "Gray">>

YellowGroup == {"Yellow", "Gold", "Orange"}
SilverGroup == {"Silver", "Gray"}

(***************************************************************************)
(* str.lower() on the strings the model's inputs use.  A string that is    *)
(* not listed lowers to itself (it is already lower case or matches no     *)
(* palette name).                                                          *)
(***************************************************************************)
LowerTable ==
    [Red |-> "red", RED |-> "red", Green |-> "green", Blue |-> "blue",
     Yellow |-> "yellow", Purple |-> "purple", Gold |-> "gold", GOLD |-> "gold",
     Silver |-> "silver", Pink |-> "pink", Black |-> "black", White |-> "white",
     Brown |-> "brown", Orange |-> "orange", Gray |-> "gray", Teal |-> "teal"]

Lower(s) == IF s \in DOMAIN LowerTable THEN LowerTable[s] ELSE s

Range(f) == {f[i] : i \in DOMAIN f}

Min(a, b) == IF a < b THEN a ELSE b

(***************************************************************************)
(* select_round_colors.  A random draw is an input of the action: `w` is   *)
(* how many of the candidates random.choice may return (the first w of the *)
(* list), `seed` fixes the draws of random.shuffle.                        *)
(***************************************************************************)
PaletteMatch(c) == {i \in DOMAIN all_colors : Lower(all_colors[i]) = Lower(c)}

\* next((c for c in self.all_colors if c["name"].lower() == color.lower()), None)
Resolve(c) ==
    IF PaletteMatch(c) = {} THEN None
    ELSE all_colors[CHOOSE i \in PaletteMatch(c) : \A j \in PaletteMatch(c) : i <= j]

RECURSIVE ResolveAll(_)
ResolveAll(cs) ==
    IF cs = <<>> THEN <<>>
    ELSE (IF Resolve(Head(cs)) = None THEN <<>> ELSE <<Resolve(Head(cs))>>)
             \o ResolveAll(Tail(cs))

Excluded(chosen) ==
    (IF Range(chosen) \cap YellowGroup # {} THEN YellowGroup ELSE {})
        \cup (IF Range(chosen) \cap SilverGroup # {} THEN SilverGroup ELSE {})

Available(chosen) ==
    SelectSeq(all_colors, LAMBDA c : c \notin Excluded(chosen) /\ c \notin Range(chosen))

\* Variant: a drawn filler leaves the rest of its group among the candidates
AfterDrawKeepGroup(avail, ch) == SelectSeq(avail, LAMBDA c : c # ch)

\* available_colors after a filler was drawn: the filler and the rest of its group go
AfterDraw(avail, ch) ==
    SelectSeq(avail, LAMBDA c :
        /\ c # ch
        /\ ~(ch \in YellowGroup /\ c \in YellowGroup)
        /\ ~(ch \notin YellowGroup /\ ch \in SilverGroup /\ c \in SilverGroup))

\* Variant: the filler loop stops one short of the target
RECURSIVE FillOutcomesShort(_, _, _)
FillOutcomesShort(rc, avail, w) ==
    IF Len(rc) < TargetCount - 1 /\ avail # <<>>
    THEN UNION {FillOutcomesShort(Append(rc, avail[i]), AfterDraw(avail, avail[i]), w) :
                    i \in 1..Min(Len(avail), w)}
    ELSE {rc}

RECURSIVE FillOutcomes(_, _, _)
FillOutcomes(rc, avail, w) ==
    IF Len(rc) < TargetCount /\ avail # <<>>
    THEN UNION {FillOutcomes(Append(rc, avail[i]), AfterDraw(avail, avail[i]), w) :
                    i \in 1..Min(Len(avail), w)}
    ELSE {rc}

Swap(x, i, j) == [x EXCEPT ![i] = x[j], ![j] = x[i]]

\* for i in reversed(range(1, len(x))): j = randbelow(i + 1); x[i], x[j] = x[j], x[i]
RECURSIVE ShuffleFrom(_, _, _)
ShuffleFrom(x, p, seed) ==
    IF p < 2 THEN x ELSE ShuffleFrom(Swap(x, p, (seed % p) + 1), p - 1, seed)

Shuffle(x, seed) == ShuffleFrom(x, Len(x), seed)

FailedSelection ==
    [ok |-> FALSE, round_colors |-> <<>>, correct_colors |-> <<>>,
     current_song |-> current_song]

StartedSelection(chosen, song, w, seeds) ==
    {[ok |-> TRUE, round_colors |-> Shuffle(f, s), correct_colors |-> chosen,
      current_song |-> song] :
        f \in FillOutcomes(chosen, Available(chosen), w), s \in 0..(seeds - 1)}

\* Variant: the explicit branch without the `if not chosen_correct_colors` return
SelectExplicitUnchecked(specified, w, seeds) ==
    StartedSelection(ResolveAll(specified), current_song, w, seeds)

SelectExplicit(specified, w, seeds) ==
    IF ResolveAll(specified) = <<>> THEN {FailedSelection}
    ELSE StartedSelection(ResolveAll(specified), current_song, w, seeds)

\* Variant: every catalog entry is a candidate, used or not
AvailableSongsAll == DOMAIN songs

AvailableSongs == {i \in DOMAIN songs : songs[i].uri \notin used_songs}

\* Variant: an entry whose colors resolve to nothing is passed over for another
SelectCatalogRetrying(w, seeds) ==
    IF \A i \in AvailableSongs : ResolveAll(songs[i].colors) = <<>>
    THEN {FailedSelection}
    ELSE UNION {StartedSelection(ResolveAll(songs[i].colors), i, w, seeds) :
                    i \in {j \in AvailableSongs : ResolveAll(songs[j].colors) # <<>>}}

SelectCatalog(w, seeds) ==
    IF AvailableSongs = {} THEN {FailedSelection}
    ELSE UNION {IF ResolveAll(songs[i].colors) = <<>> THEN {FailedSelection}
                ELSE StartedSelection(ResolveAll(songs[i].colors), i, w, seeds) :
                    i \in AvailableSongs}

\* specified is <<>> for a bare `toggle` (specified_colors=None)
select_round_colors(specified, w, seeds) ==
    IF specified # <<>> THEN SelectExplicit(specified, w, seeds)
    ELSE SelectCatalog(w, seeds)

(***************************************************************************)
(* The roster.                                                             *)
(***************************************************************************)
\* Player.__init__
NewPlayer == [score |-> 0, websocket |-> NoSocket, has_answered |-> FALSE, answer |-> None]

\* Variant: add_player builds a new Player on every join
AddPlayersFresh(P, name, ws) ==
    [n \in DOMAIN P \cup {name} |->
        IF n = name THEN [NewPlayer EXCEPT !.websocket = ws] ELSE P[n]]

\* Variant: a player first added while a round is active sits the round out
AddPlayersSitOut(P, name, ws) ==
    IF name \in DOMAIN P THEN [P EXCEPT ![name].websocket = ws]
    ELSE [n \in DOMAIN P \cup {name} |->
             IF n = name
             THEN [NewPlayer EXCEPT !.websocket = ws, !.has_answered = (state = "question")]
             ELSE P[n]]

\* add_player: the roster after it (the dict and its insertion order)
AddPlayers(P, name, ws) ==
    IF name \in DOMAIN P THEN [P EXCEPT ![name].websocket = ws]
    ELSE [n \in DOMAIN P \cup {name} |->
             IF n = name THEN [NewPlayer EXCEPT !.websocket = ws] ELSE P[n]]

AddRoster(R, name) == IF name \in Range(R) THEN R ELSE Append(R, name)

\* remove_player
RemovePlayers(P, name) == [n \in DOMAIN P \ {name} |-> P[n]]

RemoveRoster(R, name) == SelectSeq(R, LAMBDA n : n # name)

\* get_answer_count
AnsweredCount(P) == Cardinality({n \in DOMAIN P : P[n].has_answered})

TotalPlayers(P) == Cardinality(DOMAIN P)

\* Variant: all_players_answered is false of an empty roster
all_players_answered_nonempty(P) ==
    DOMAIN P # {} /\ \A n \in DOMAIN P : P[n].has_answered

all_players_answered(P) == \A n \in DOMAIN P : P[n].has_answered

\* get_player_list, in the dict's iteration order
RECURSIVE get_player_list(_, _)
get_player_list(P, R) ==
    IF R = <<>> THEN <<>>
    ELSE (IF P[Head(R)].websocket # NoSocket
          THEN <<[name |-> Head(R), score |-> P[Head(R)].score]>> ELSE <<>>)
             \o get_player_list(P, Tail(R))

(***************************************************************************)
(* Scoring.  d is the elapsed time in milliseconds, so elapsed_time * 100  *)
(* is d / 10 and 5000 - elapsed_time * 100 is (50000 - d) / 10; int()      *)
(* truncates toward zero.                                                  *)
(***************************************************************************)
TruncDiv(a, b) == IF a >= 0 THEN a \div b ELSE -((-a) \div b)

\* Variant: the decay rounds elapsed_time * 100 down before subtracting it
DecayedScoreFloor(d) ==
    LET v == MaxScore - ((d * DecayPerSecond) \div 1000)
    IN  IF v > 0 THEN v ELSE 0

\* Variant: the decay counts whole elapsed seconds only
DecayedScoreWholeSeconds(d) ==
    LET v == MaxScore - DecayPerSecond * (d \div 1000)
    IN  IF v > 0 THEN v ELSE 0

\* max(0, int(5000 - (elapsed_time * 100)))
DecayedScore(d) ==
    LET v == TruncDiv(MaxScore * 1000 - d * DecayPerSecond, 1000)
    IN  IF v > 0 THEN v ELSE 0

\* Variant: a submission at exactly round_duration is already late
IsLateInclusive(d) == d >= round_duration * 1000

\* elapsed_time > self.round_duration
IsLate(d) == d > round_duration * 1000

\* Variant: check_answer without the early return for a locked player
check_answer_rescoring(P, name, color, d) ==
    IF state # "question"
    THEN [path |-> "not_question", correct |-> FALSE, score |-> 0, players |-> P]
    ELSE IF IsLate(d)
    THEN [path |-> "late", correct |-> FALSE, score |-> 0, players |-> P]
    ELSE [path |-> "scored", correct |-> color \in Range(correct_colors),
          score |-> DecayedScore(d),
          players |-> [P EXCEPT ![name] =
              [score |-> IF color \in Range(correct_colors)
                         THEN P[name].score + DecayedScore(d) ELSE P[name].score,
               websocket |-> P[name].websocket,
               has_answered |-> TRUE,
               answer |-> color]]]

\* Variant: check_answer locks the player only when the answer is correct
check_answer_lock_if_correct(P, name, color, d) ==
    IF state # "question"
    THEN [path |-> "not_question", correct |-> FALSE, score |-> 0, players |-> P]
    ELSE IF P[name].has_answered
    THEN [path |-> "locked", correct |-> P[name].answer \in Range(correct_colors),
          score |-> P[name].score, players |-> P]
    ELSE IF IsLate(d)
    THEN [path |-> "late", correct |-> FALSE, score |-> 0, players |-> P]
    ELSE [path |-> "scored", correct |-> color \in Range(correct_colors),
          score |-> DecayedScore(d),
          players |-> IF color \in Range(correct_colors)
                      THEN [P EXCEPT ![name] =
                               [score |-> P[name].score + DecayedScore(d),
                                websocket |-> P[name].websocket,
                                has_answered |-> TRUE,
                                answer |-> color]]
                      ELSE P]

\* Variant: the lock is the round's, not the player's: once any player has
\* answered, every submission is answered from the lock
check_answer_round_lock(P, name, color, d) ==
    IF state # "question"
    THEN [path |-> "not_question", correct |-> FALSE, score |-> 0, players |-> P]
    ELSE IF \E m \in DOMAIN P : P[m].has_answered
    THEN [path |-> "locked", correct |-> P[name].answer \in Range(correct_colors),
          score |-> P[name].score, players |-> P]
    ELSE IF IsLate(d)
    THEN [path |-> "late", correct |-> FALSE, score |-> 0, players |-> P]
    ELSE [path |-> "scored", correct |-> color \in Range(correct_colors),
          score |-> DecayedScore(d),
          players |-> [P EXCEPT ![name] =
              [score |-> IF color \in Range(correct_colors)
                         THEN P[name].score + DecayedScore(d) ELSE P[name].score,
               websocket |-> P[name].websocket,
               has_answered |-> TRUE,
               answer |-> color]]]

(***************************************************************************)
(* check_answer(player_name, color_name) at elapsed time d, for a name in  *)
(* the roster: the return statement it leaves by (path), what it returns   *)
(* and the roster after it.                                                *)
(***************************************************************************)
\* Variant: every answer already locked in the round costs a later one 100 points
check_answer_ranked(P, name, color, d) ==
    LET award == Min(DecayedScore(d), MaxScore - 100 * AnsweredCount(P))
    IN  IF state # "question"
        THEN [path |-> "not_question", correct |-> FALSE, score |-> 0, players |-> P]
        ELSE IF P[name].has_answered
        THEN [path |-> "locked", correct |-> P[name].answer \in Range(correct_colors),
              score |-> P[name].score, players |-> P]
        ELSE IF IsLate(d)
        THEN [path |-> "late", correct |-> FALSE, score |-> 0, players |-> P]
        ELSE [path |-> "scored", correct |-> color \in Range(correct_colors),
              score |-> award,
              players |-> [P EXCEPT ![name] =
                  [score |-> IF color \in Range(correct_colors)
                             THEN P[name].score + award ELSE P[name].score,
                   websocket |-> P[name].websocket,
                   has_answered |-> TRUE,
                   answer |-> color]]]

check_answer(P, name, color, d) ==
    IF state # "question"
    THEN [path |-> "not_question", correct |-> FALSE, score |-> 0, players |-> P]
    ELSE IF P[name].has_answered
    THEN [path |-> "locked", correct |-> P[name].answer \in Range(correct_colors),
          score |-> P[name].score, players |-> P]
    ELSE IF IsLate(d)
    THEN [path |-> "late", correct |-> FALSE, score |-> 0, players |-> P]
    ELSE [path |-> "scored", correct |-> color \in Range(correct_colors),
          score |-> DecayedScore(d),
          players |-> [P EXCEPT ![name] =
              [score |-> IF color \in Range(correct_colors)
                         THEN P[name].score + DecayedScore(d) ELSE P[name].score,
               websocket |-> P[name].websocket,
               has_answered |-> TRUE,
               answer |-> color]]]

(***************************************************************************)
(* Outbound messages.  Each takes the roster P (with its order R) it is    *)
(* computed from; `to` is the connection the message is sent on.           *)
(***************************************************************************)
\* Variant: the payload carries the displayed colors in every state
GameStateMsgAlwaysColors(P, R, st, rc, rst, name) ==
    [action |-> "game_state", to |-> P[name].websocket, state |-> st,
     score |-> P[name].score,
     colors |-> Some(rc),
     leaderboard |-> IF st = "score" THEN Some(get_player_list(P, R)) ELSE Null,
     roundStartTime |-> IF st = "question" THEN rst ELSE NoTime,
     roundDuration |-> round_duration,
     hasAnswered |-> P[name].has_answered, answer |-> P[name].answer,
     answeredCount |-> AnsweredCount(P), totalPlayers |-> TotalPlayers(P)]

\* send_game_state(player) for the roster entry `name`
GameStateMsg(P, R, st, rc, rst, name) ==
    [action |-> "game_state", to |-> P[name].websocket, state |-> st,
     score |-> P[name].score,
     colors |-> IF st = "question" THEN Some(rc) ELSE Null,
     leaderboard |-> IF st = "score" THEN Some(get_player_list(P, R)) ELSE Null,
     roundStartTime |-> IF st = "question" THEN rst ELSE NoTime,
     roundDuration |-> round_duration,
     hasAnswered |-> P[name].has_answered, answer |-> P[name].answer,
     answeredCount |-> AnsweredCount(P), totalPlayers |-> TotalPlayers(P)]

\* Variant: the answered count counts the players whose answer is correct
AnswerCountMsgOfCorrect(P, ws) ==
    [action |-> "update_answer_count", to |-> ws,
     answeredCount |->
         Cardinality({n \in DOMAIN P :
                         P[n].has_answered /\ P[n].answer \in Range(correct_colors)}),
     totalPlayers |-> TotalPlayers(P)]

AnswerCountMsg(P, ws) ==
    [action |-> "update_answer_count", to |-> ws,
     answeredCount |-> AnsweredCount(P), totalPlayers |-> TotalPlayers(P)]

PlayerAnsweredMsg(ws, name) ==
    [action |-> "player_answered", to |-> ws, playerName |-> name]

ColorResultMsg(ws, correct, score, total) ==
    [action |-> "color_result", to |-> ws, correct |-> correct, score |-> score,
     totalScore |-> total]

\* for p in lobby.players.values(): if p.websocket: await send_game_state(p)
RECURSIVE BroadcastGameStateFrom(_, _, _, _, _, _)
BroadcastGameStateFrom(P, R, st, rc, rst, rest) ==
    IF rest = <<>> THEN <<>>
    ELSE (IF P[Head(rest)].websocket # NoSocket
          THEN <<GameStateMsg(P, R, st, rc, rst, Head(rest))>> ELSE <<>>)
             \o BroadcastGameStateFrom(P, R, st, rc, rst, Tail(rest))

broadcast_game_state(P, R, st, rc, rst) == BroadcastGameStateFrom(P, R, st, rc, rst, R)

RECURSIVE BroadcastAnswerCountFrom(_, _)
BroadcastAnswerCountFrom(P, rest) ==
    IF rest = <<>> THEN <<>>
    ELSE (IF P[Head(rest)].websocket # NoSocket
          THEN <<AnswerCountMsg(P, P[Head(rest)].websocket)>> ELSE <<>>)
             \o BroadcastAnswerCountFrom(P, Tail(rest))

broadcast_answer_count(P, R) == BroadcastAnswerCountFrom(P, R)

RECURSIVE BroadcastPlayerAnsweredFrom(_, _, _)
BroadcastPlayerAnsweredFrom(P, rest, name) ==
    IF rest = <<>> THEN <<>>
    ELSE (IF P[Head(rest)].websocket # NoSocket
          THEN <<PlayerAnsweredMsg(P[Head(rest)].websocket, name)>> ELSE <<>>)
             \o BroadcastPlayerAnsweredFrom(P, Tail(rest), name)

\* Variant: the notice is broadcast only for a player who is locked
broadcast_player_answered_if_locked(P, R, name) ==
    IF P[name].has_answered THEN BroadcastPlayerAnsweredFrom(P, R, name) ELSE <<>>

broadcast_player_answered(P, R, name) == BroadcastPlayerAnsweredFrom(P, R, name)

(***************************************************************************)
(* A send on a connection that is not open raises ConnectionClosed, which  *)
(* ends the sequence of sends it is part of: Delivered is the part sent.   *)
(***************************************************************************)
RECURSIVE Delivered(_)
Delivered(msgs) ==
    IF msgs = <<>> THEN <<>>
    ELSE IF conns[Head(msgs).to].status = "open"
         THEN <<Head(msgs)>> \o Delivered(Tail(msgs))
         ELSE <<>>

Raised(msgs) == Delivered(msgs) # msgs

NoEvent ==
    [op |-> "none", conn |-> 0, name |-> None, color |-> None, kind |-> None,
     specified |-> <<>>, called |-> FALSE, path |-> "none", correct |-> FALSE, score |-> 0, elapsed |-> 0, ok |-> FALSE]

(***************************************************************************)
(* handle_client.  A handler runs from one await of a message to the next  *)
(* as one step.  ClientFinally is the finally block, entered with the      *)
(* roster P (order R) the try block left and the messages `pre` it sent;   *)
(* pv is the handler's local `player` (a roster name or None).             *)
(***************************************************************************)
ClientFinally(c, pv, P, R, pre) ==
    LET P2 == IF pv = None THEN P ELSE RemovePlayers(P, pv)
        R2 == IF pv = None THEN R ELSE RemoveRoster(R, pv)
        fin == IF pv = None THEN <<>>
               ELSE broadcast_game_state(P2, R2, state, round_colors, round_start_time)
                        \o broadcast_answer_count(P2, R2)
    IN  /\ players' = P2
        /\ roster' = R2
        /\ conns' = [conns EXCEPT ![c] = [status |-> "done", player |-> None]]
        /\ sent' = pre \o Delivered(fin)

\* the try block mutated the roster to P (order R) and then sends msgs
ClientRun(c, pv, P, R, msgs) ==
    IF Raised(msgs) THEN ClientFinally(c, pv, P, R, Delivered(msgs))
    ELSE /\ players' = P
         /\ roster' = R
         /\ conns' = [conns EXCEPT ![c].player = pv]
         /\ sent' = msgs

Join(c, name) ==
    /\ conns[c].status = "open"
    /\ LET P == AddPlayers(players, name, c)
           R == AddRoster(roster, name)
       IN  ClientRun(c, name, P, R,
               <<GameStateMsg(P, R, state, round_colors, round_start_time, name)>>
                   \o broadcast_answer_count(P, R))
    /\ ev' = [NoEvent EXCEPT !.op = "join", !.conn = c, !.name = name]
    /\ UNCHANGED <<round_colors, correct_colors, state, round_start_time, songs,
                   used_songs, current_song, spotify_enabled, admin, now, rounds,
                   answered_in_round, first_result, chosen_songs, last_count, tasks>>

\* Variant: the select_color branch guarded by `if player:` alone
SelectColorAnyState(c, color) ==
    /\ conns[c].status = "open"
    /\ LET pv == conns[c].player
           d == now - round_start_time
       IN  IF pv = None
           THEN /\ UNCHANGED <<players, roster, conns>>
                /\ sent' = <<>>
                /\ ev' = [NoEvent EXCEPT !.op = "select_color", !.conn = c,
                                         !.name = pv, !.color = color]
           ELSE IF pv \notin DOMAIN players
           THEN /\ ClientFinally(c, pv, players, roster, <<>>)
                /\ ev' = [NoEvent EXCEPT !.op = "select_color", !.conn = c,
                                         !.name = pv, !.color = color]
           ELSE LET r == check_answer(players, pv, color, d)
                IN  /\ ClientRun(c, pv, r.players, roster,
                           <<ColorResultMsg(c, r.correct, r.score, r.players[pv].score)>>
                               \o broadcast_player_answered(r.players, roster, pv)
                               \o broadcast_answer_count(r.players, roster))
                    /\ ev' = [NoEvent EXCEPT !.op = "select_color", !.conn = c,
                                  !.name = pv, !.color = color, !.called = TRUE,
                                  !.path = r.path,
                                  !.correct = r.correct, !.score = r.score,
                                  !.elapsed = d]
    /\ answered_in_round' =
           IF ev'.path = "scored" THEN answered_in_round \cup {ev'.name}
           ELSE answered_in_round
    /\ UNCHANGED <<chosen_songs, last_count>>
    /\ first_result' =
           IF ev'.path = "scored"
           THEN [n \in DOMAIN first_result \cup {ev'.name} |->
                    IF n = ev'.name THEN <<ev'.correct, ev'.score>> ELSE first_result[n]]
           ELSE first_result
    /\ UNCHANGED <<round_colors, correct_colors, state, round_start_time, songs,
                   used_songs, current_song, spotify_enabled, admin, now, rounds,
                   tasks>>

SelectColor(c, color) ==
    /\ conns[c].status = "open"
    /\ LET pv == conns[c].player
           d == now - round_start_time
       IN  IF pv = None \/ state # "question"
           THEN /\ UNCHANGED <<players, roster, conns>>
                /\ sent' = <<>>
                /\ ev' = [NoEvent EXCEPT !.op = "select_color", !.conn = c,
                                         !.name = pv, !.color = color]
           ELSE IF pv \notin DOMAIN players
           THEN \* self.players[player_name] raises KeyError
                /\ ClientFinally(c, pv, players, roster, <<>>)
                /\ ev' = [NoEvent EXCEPT !.op = "select_color", !.conn = c,
                                         !.name = pv, !.color = color]
           ELSE LET r == check_answer(players, pv, color, d)
                IN  /\ ClientRun(c, pv, r.players, roster,
                           <<ColorResultMsg(c, r.correct, r.score, r.players[pv].score)>>
                               \o broadcast_player_answered(r.players, roster, pv)
                               \o broadcast_answer_count(r.players, roster))
                    /\ ev' = [NoEvent EXCEPT !.op = "select_color", !.conn = c,
                                  !.name = pv, !.color = color, !.called = TRUE,
                                  !.path = r.path,
                                  !.correct = r.correct, !.score = r.score,
                                  !.elapsed = d]
    /\ answered_in_round' =
           IF ev'.path = "scored" THEN answered_in_round \cup {ev'.name}
           ELSE answered_in_round
    /\ UNCHANGED <<chosen_songs, last_count>>
    /\ first_result' =
           IF ev'.path = "scored"
           THEN [n \in DOMAIN first_result \cup {ev'.name} |->
                    IF n = ev'.name THEN <<ev'.correct, ev'.score>> ELSE first_result[n]]
           ELSE first_result
    /\ UNCHANGED <<round_colors, correct_colors, state, round_start_time, songs,
                   used_songs, current_song, spotify_enabled, admin, now, rounds,
                   tasks>>

\* the peer closes the connection; the handler has not run its finally block yet
ClientClose(c) ==
    /\ conns[c].status = "open"
    /\ conns' = [conns EXCEPT ![c].status = "closed"]
    /\ ev' = [NoEvent EXCEPT !.op = "close", !.conn = c, !.name = conns[c].player]
    /\ sent' = <<>>
    /\ UNCHANGED <<players, roster, round_colors, correct_colors, state,
                   round_start_time, songs, used_songs, current_song,
                   spotify_enabled, admin, now, rounds, answered_in_round, first_result, chosen_songs, last_count, tasks>>

\* the message loop of a closed connection ends and the finally block runs
HandlerExit(c) ==
    /\ conns[c].status = "closed"
    /\ ClientFinally(c, conns[c].player, players, roster, <<>>)
    /\ ev' = [NoEvent EXCEPT !.op = "exit", !.conn = c, !.name = conns[c].player]
    /\ UNCHANGED <<round_colors, correct_colors, state, round_start_time, songs,
                   used_songs, current_song, spotify_enabled, admin, now, rounds,
                   answered_in_round, first_result, chosen_songs, last_count, tasks>>

(***************************************************************************)
(* Messages that are not a well-formed join or select_color.  Nothing      *)
(* catches what json.loads and the subscripts of `data` raise: the         *)
(* exception leaves the message loop through the finally block.  A message *)
(* whose action is neither join nor select_color matches no branch, and    *)
(* data['color'] is read only under `if player and lobby.state ==          *)
(* "question"`.                                                            *)
(***************************************************************************)
MalformedKinds ==
    {"invalid_json", "missing_action", "unknown_action", "join_without_name",
     "select_color_without_color"}

MalformedRaises(kind, pv) ==
    \/ kind \in {"invalid_json", "missing_action", "join_without_name"}
    \/ kind = "select_color_without_color" /\ pv # None /\ state = "question"

RecvMalformed(c, kind) ==
    /\ conns[c].status = "open"
    /\ IF MalformedRaises(kind, conns[c].player)
       THEN ClientFinally(c, conns[c].player, players, roster, <<>>)
       ELSE /\ UNCHANGED <<players, roster, conns>>
            /\ sent' = <<>>
    /\ ev' = [NoEvent EXCEPT !.op = "malformed", !.conn = c,
                             !.name = conns[c].player, !.kind = kind]
    /\ UNCHANGED <<round_colors, correct_colors, state, round_start_time, songs,
                   used_songs, current_song, spotify_enabled, admin, now, rounds,
                   answered_in_round, first_result, chosen_songs, last_count, tasks>>

(***************************************************************************)
(* handle_admin_input: one `toggle` command.  toggle_state calls            *)
(* start_new_round from "score" and end_round from "question"; then the    *)
(* playback calls and the two broadcasts follow.                           *)
(***************************************************************************)
\* Variant: the reset clears has_answered and leaves the stored answer
ResetRoundFlagsKeepAnswer(P) ==
    [n \in DOMAIN P |-> [P[n] EXCEPT !.has_answered = FALSE]]

\* Variant: the reset at the start of a round also clears the scores
ResetRoundFlagsAndScore(P) ==
    [n \in DOMAIN P |-> [P[n] EXCEPT !.has_answered = FALSE, !.answer = None,
                                      !.score = 0]]

\* for player in self.players.values(): has_answered = False; answer = None
ResetRoundFlags(P) ==
    [n \in DOMAIN P |-> [P[n] EXCEPT !.has_answered = FALSE, !.answer = None]]

\* controller.play_track(lobby.current_song['uri']) with current_song None: TypeError
PlaybackCrashes(st, song) == spotify_enabled /\ st = "question" /\ song = NoSong

\* Variant: the command loop broadcasts the answer count only
AdminAfterCountOnly(P, st, rc, rst, song) ==
    LET msgs == IF PlaybackCrashes(st, song) THEN <<>>
                ELSE broadcast_answer_count(P, roster)
    IN  /\ sent' = Delivered(msgs)
        /\ admin' = IF PlaybackCrashes(st, song) \/ Raised(msgs)
                    THEN "dead" ELSE "running"

\* what follows toggle_state in the command loop, on the lobby as the toggle left it
AdminAfter(P, st, rc, rst, song) ==
    LET msgs == IF PlaybackCrashes(st, song) THEN <<>>
                ELSE broadcast_game_state(P, roster, st, rc, rst)
                         \o broadcast_answer_count(P, roster)
    IN  /\ sent' = Delivered(msgs)
        /\ admin' = IF PlaybackCrashes(st, song) \/ Raised(msgs)
                    THEN "dead" ELSE "running"

\* Variant: start_new_round goes on whatever select_round_colors returned
RoundStartsAlways(success) == TRUE

\* start_new_round's `if not success: return`
RoundStarts(success) == success

\* start_new_round(specified_colors), reached by a toggle in state "score"
StartRound(specified, w, seeds) ==
    /\ admin = "running"
    /\ state = "score"
    /\ rounds < MaxRounds
    /\ \E out \in select_round_colors(specified, w, seeds) :
        /\ round_colors' = out.round_colors
        /\ correct_colors' = out.correct_colors
        /\ current_song' = out.current_song
        /\ IF RoundStarts(out.ok)
           THEN /\ round_start_time' = now
                /\ state' = "question"
                /\ players' = ResetRoundFlags(players)
                /\ rounds' = rounds + 1
                /\ answered_in_round' = {}
                /\ first_result' = <<>>
                /\ chosen_songs' = IF specified = <<>> /\ out.ok
                                   THEN Append(chosen_songs, songs[out.current_song].uri)
                                   ELSE chosen_songs
                /\ AdminAfter(ResetRoundFlags(players), "question", out.round_colors,
                              now, out.current_song)
           ELSE /\ UNCHANGED <<round_start_time, state, players, rounds,
                               answered_in_round, first_result, chosen_songs, last_count>>
                /\ AdminAfter(players, state, out.round_colors, round_start_time,
                              out.current_song)
        /\ ev' = [NoEvent EXCEPT !.op = "toggle", !.specified = specified,
                                 !.ok = out.ok]
    /\ UNCHANGED <<roster, songs, used_songs, spotify_enabled, conns, now, last_count,
                   tasks>>

\* Variant: end_round also clears the round flags of every player
EndRoundResetting ==
    /\ admin = "running"
    /\ state = "question"
    /\ used_songs' = IF current_song # NoSong
                     THEN used_songs \cup {songs[current_song].uri} ELSE used_songs
    /\ current_song' = NoSong
    /\ state' = "score"
    /\ players' = ResetRoundFlags(players)
    /\ AdminAfter(ResetRoundFlags(players), "score", round_colors, round_start_time,
                  NoSong)
    /\ ev' = [NoEvent EXCEPT !.op = "toggle", !.ok = TRUE]
    /\ answered_in_round' = {}
    /\ first_result' = <<>>
    /\ UNCHANGED <<chosen_songs, last_count>>
    /\ UNCHANGED <<roster, round_colors, correct_colors, round_start_time,
                   songs, spotify_enabled, conns, now, rounds, tasks>>

\* Variant: ending a round that played no catalog entry empties used_songs
EndRoundClearingUsed ==
    /\ admin = "running"
    /\ state = "question"
    /\ used_songs' = IF current_song # NoSong
                     THEN used_songs \cup {songs[current_song].uri} ELSE {}
    /\ current_song' = NoSong
    /\ state' = "score"
    /\ AdminAfter(players, "score", round_colors, round_start_time, NoSong)
    /\ ev' = [NoEvent EXCEPT !.op = "toggle", !.ok = TRUE]
    /\ answered_in_round' = {}
    /\ first_result' = <<>>
    /\ UNCHANGED <<chosen_songs, last_count>>
    /\ UNCHANGED <<players, roster, round_colors, correct_colors, round_start_time,
                   songs, spotify_enabled, conns, now, rounds, tasks>>

\* end_round(), reached by a toggle in state "question"
EndRound ==
    /\ admin = "running"
    /\ state = "question"
    /\ used_songs' = IF current_song # NoSong
                     THEN used_songs \cup {songs[current_song].uri} ELSE used_songs
    /\ current_song' = NoSong
    /\ state' = "score"
    /\ AdminAfter(players, "score", round_colors, round_start_time, NoSong)
    /\ ev' = [NoEvent EXCEPT !.op = "toggle", !.ok = TRUE]
    /\ answered_in_round' = {}
    /\ first_result' = <<>>
    /\ UNCHANGED <<chosen_songs, last_count>>
    /\ UNCHANGED <<players, roster, round_colors, correct_colors, round_start_time,
                   songs, spotify_enabled, conns, now, rounds, tasks>>

(***************************************************************************)
(* The wall clock.  time.time() is not monotonic: the clock can be set     *)
(* back between two reads.                                                 *)
(***************************************************************************)
ClockTo(t) ==
    /\ t # now
    /\ now' = t
    /\ ev' = [NoEvent EXCEPT !.op = "clock"]
    /\ sent' = <<>>
    /\ UNCHANGED <<players, roster, round_colors, correct_colors, state,
                   round_start_time, songs, used_songs, current_song,
                   spotify_enabled, conns, admin, rounds, answered_in_round, first_result, chosen_songs, last_count, tasks>>

\* Variant: a round past its duration ends when the clock moves on
TickTimesOut(t) ==
    /\ t > now
    /\ now' = t
    /\ state' = IF state = "question" /\ t - round_start_time > round_duration * 1000
                THEN "score" ELSE state
    /\ ev' = [NoEvent EXCEPT !.op = "clock"]
    /\ sent' = <<>>
    /\ UNCHANGED <<players, roster, round_colors, correct_colors,
                   round_start_time, songs, used_songs, current_song,
                   spotify_enabled, conns, admin, rounds, answered_in_round,
                   first_result, chosen_songs, last_count, tasks>>

Tick(t) == t > now /\ ClockTo(t)

ClockBack(t) == t < now /\ ClockTo(t)

\* the connections a run accepts (a connection id is never reused)
Conns == {1, 2}

\* the coroutines of the event loop: one handle_client per connection, and
\* handle_admin_input
AdminTask == 0
Tasks == Conns \cup {AdminTask}

(***************************************************************************)
(* A coroutine between two events: it awaits its next message.  Inside an  *)
(* event it is suspended in `await ...send(msg)`: msg holds the message it *)
(* is about to write, loop the broadcast it is in ("state", "count",       *)
(* "answered"), rest the roster entries its dict iterator has not reached, *)
(* size the len() of the dict when the iterator was made, dirty whether    *)
(* the dict's keys changed since, answered/total the get_answer_count()    *)
(* taken before the loop, subject the name of broadcast_player_answered,   *)
(* after the broadcasts still to run.                                      *)
(***************************************************************************)
IdleTask ==
    [mode |-> "idle", msg |-> <<>>, loop |-> "none", rest |-> <<>>, size |-> 0,
     dirty |-> FALSE, answered |-> 0, total |-> 0, subject |-> None, after |-> <<>>]

(***************************************************************************)
(* The state after GameLobby(name, songs) is constructed and the server    *)
(* listens: the catalog and the --no-spotify flag are the run's inputs.    *)
(***************************************************************************)
InitWith(catalogs, spotify, t0) ==
    /\ players = <<>>
    /\ roster = <<>>
    /\ round_colors = <<>>
    /\ correct_colors = <<>>
    /\ state = "score"
    /\ round_start_time = NoTime
    /\ songs \in catalogs
    /\ used_songs = {}
    /\ current_song = NoSong
    /\ spotify_enabled \in spotify
    /\ conns = [c \in Conns |-> [status |-> "open", player |-> None]]
    /\ admin = "running"
    /\ now \in t0
    /\ rounds = 0
    /\ ev = NoEvent
    /\ sent = <<>>
    /\ answered_in_round = {}
    /\ first_result = <<>>
    /\ chosen_songs = <<>>
    /\ last_count = [c \in Conns |-> <<>>]
    /\ tasks = [t \in Tasks |-> IdleTask]

RedSong == [uri |-> "spotify:track:1", colors |-> <<"Red">>]
TealSong == [uri |-> "spotify:track:2", colors |-> <<"Teal">>]
GoldSong == [uri |-> "spotify:track:3", colors |-> <<"Gold", "Silver">>]

(***************************************************************************)
(* The session: two names on two connections.  The clock stands still and  *)
(* the filler draw is fixed to the first candidate: every in-time answer   *)
(* scores the same, so the roster and the messages are what varies.        *)
(***************************************************************************)
Names == {"Alice", "Bob"}
AnswerColors == {"Red", "Blue"}
SessionInputs == {<<>>, <<"red">>, <<"Teal">>}
SessionCatalogs == {<<RedSong>>, <<TealSong>>}

Init == InitWith(SessionCatalogs, {FALSE}, {0})

Next ==
    \/ \E c \in Conns, n \in Names : Join(c, n)
    \/ \E c \in Conns, col \in AnswerColors : SelectColor(c, col)
    \/ \E c \in Conns : ClientClose(c)
    \/ \E c \in Conns : HandlerExit(c)
    \/ \E sp \in SessionInputs : StartRound(sp, 1, 1)
    \/ EndRound

Spec == Init /\ [][Next]_vars

(***************************************************************************)
(* Scoring: one name, and a clock that moves over instants chosen to give  *)
(* elapsed times on and off the hundredths of a second, at and past the    *)
(* round's duration, and before the round's start.                         *)
(***************************************************************************)
ScoringNames == {"Alice"}
ScoringInstants == {0, 5, 20, 2000, 50000, 50100}
ScoringInputs == {<<"red">>}
ScoringConns == {1}

InitScoring == InitWith({<<>>}, {FALSE}, {0})

NextScoring ==
    \/ \E c \in ScoringConns, n \in ScoringNames : Join(c, n)
    \/ \E c \in ScoringConns, col \in AnswerColors : SelectColor(c, col)
    \/ \E c \in ScoringConns : ClientClose(c)
    \/ \E c \in ScoringConns : HandlerExit(c)
    \/ \E sp \in ScoringInputs : StartRound(sp, 1, 1)
    \/ EndRound
    \/ \E t \in ScoringInstants : Tick(t)
    \/ \E t \in ScoringInstants : ClockBack(t)

SpecScoring == InitScoring /\ [][NextScoring]_vars

(***************************************************************************)
(* The round selector: no client connects; the admin starts and ends       *)
(* rounds from explicit color lists and from the catalog, and the random   *)
(* draws range over FillWidth candidates and ShuffleSeeds shuffles.        *)
(***************************************************************************)
SelectorInputs ==
    {<<>>, <<"red">>, <<"Teal">>, <<"Teal", "GOLD", "Silver">>, <<"Yellow", "Gold">>,
     <<"RED", "Red">>,
     <<"Red", "Green", "Blue", "Purple", "Pink", "Black", "White">>}
SelectorCatalogs == {<<RedSong, TealSong, GoldSong>>}

InitSelector == InitWith(SelectorCatalogs, {FALSE}, {0})

NextSelector ==
    \/ \E sp \in SelectorInputs : StartRound(sp, FillWidth, ShuffleSeeds)
    \/ EndRound

SpecSelector == InitSelector /\ [][NextSelector]_vars

(***************************************************************************)
(* The catalog alone: the admin types bare toggles only, so that every     *)
(* round plays an entry random.choice picked among the unused ones.        *)
(***************************************************************************)
InitCatalog == InitWith(SelectorCatalogs, {FALSE}, {0})

NextCatalog ==
    \/ StartRound(<<>>, FillWidth, ShuffleSeeds)
    \/ EndRound

SpecCatalog == InitCatalog /\ [][NextCatalog]_vars

(***************************************************************************)
(* The handlers send by send.  Every `await ...send(msg)` is a point where *)
(* the coroutine may be suspended and another coroutine run: a step writes *)
(* the message the coroutine is suspended on and runs the coroutine on to  *)
(* its next send (or to the end of its event).                             *)
(***************************************************************************)
\* the dict gained the key `name`: an iterator in flight finds it last
KeyAdded(TS, name) ==
    [t \in DOMAIN TS |->
        IF TS[t].loop # "none"
        THEN [TS[t] EXCEPT !.rest = Append(@, name), !.dirty = TRUE]
        ELSE TS[t]]

\* the dict lost the key `name`: an iterator in flight skips it
KeyRemoved(TS, name) ==
    [t \in DOMAIN TS |->
        IF TS[t].loop # "none"
        THEN [TS[t] EXCEPT !.rest = SelectSeq(@, LAMBDA n : n # name), !.dirty = TRUE]
        ELSE TS[t]]

\* the message the broadcast T is in sends to roster entry n
LoopMsg(T, P, R, st, rc, rst, n) ==
    CASE T.loop = "state" -> GameStateMsg(P, R, st, rc, rst, n)
      [] T.loop = "count" ->
            [AnswerCountMsg(P, P[n].websocket) EXCEPT !.answeredCount = T.answered,
                                                      !.totalPlayers = T.total]
      [] T.loop = "answered" -> PlayerAnsweredMsg(P[n].websocket, T.subject)

(***************************************************************************)
(* The coroutine T runs on, on the lobby (P, R, st, rc, rst), to its next  *)
(* send.  The outcomes: "send" (suspended on T.msg), "end" (no broadcast   *)
(* left) and "raise": next() on a dict whose size changed raises           *)
(* RuntimeError, and on a dict whose keys changed with the size restored   *)
(* it may raise or go on.                                                  *)
(***************************************************************************)
RECURSIVE Advance(_, _, _, _, _, _)
Advance(T, P, R, st, rc, rst) ==
    IF T.loop = "none"
    THEN IF T.after = <<>>
         THEN {[out |-> "end", task |-> T]}
         ELSE Advance([T EXCEPT !.loop = Head(T.after), !.after = Tail(T.after),
                                !.rest = R, !.size = Len(R), !.dirty = FALSE,
                                !.answered = IF Head(T.after) = "count"
                                             THEN AnsweredCount(P) ELSE 0,
                                !.total = IF Head(T.after) = "count"
                                          THEN TotalPlayers(P) ELSE 0],
                      P, R, st, rc, rst)
    ELSE IF Len(R) # T.size
    THEN {[out |-> "raise", task |-> T]}
    ELSE (IF T.dirty THEN {[out |-> "raise", task |-> T]} ELSE {})
            \cup (IF T.rest = <<>>
                  THEN Advance([T EXCEPT !.loop = "none", !.size = 0, !.dirty = FALSE,
                                         !.answered = 0, !.total = 0],
                               P, R, st, rc, rst)
                  ELSE {[out |-> "send",
                         task |-> [T EXCEPT
                             !.rest = Tail(T.rest),
                             !.msg = <<LoopMsg(T, P, R, st, rc, rst, Head(T.rest))>>]]})

\* handle_client returns: the connection's handler is over
ClientDone(c, P, R, TS) ==
    /\ players' = P
    /\ roster' = R
    /\ conns' = [conns EXCEPT ![c] = [status |-> "done", player |-> None]]
    /\ tasks' = [TS EXCEPT ![c] = IdleTask]

\* the finally block of handle_client, up to its first send
EnterFinally(c, pv, P, R, TS) ==
    IF pv = None THEN ClientDone(c, P, R, TS)
    ELSE LET P2 == RemovePlayers(P, pv)
             R2 == RemoveRoster(R, pv)
             TS2 == IF pv \in DOMAIN P THEN KeyRemoved(TS, pv) ELSE TS
         IN  \E o \in Advance([IdleTask EXCEPT !.mode = "finally",
                                               !.after = <<"state", "count">>],
                              P2, R2, state, round_colors, round_start_time) :
                 IF o.out = "send"
                 THEN /\ players' = P2
                      /\ roster' = R2
                      /\ conns' = conns
                      /\ tasks' = [TS2 EXCEPT ![c] = o.task]
                 ELSE ClientDone(c, P2, R2, TS2)

\* the handler of c, its send done, runs on to its next send
ClientAdvance(c) ==
    \E o \in Advance([tasks[c] EXCEPT !.msg = <<>>], players, roster,
                     state, round_colors, round_start_time) :
        IF o.out = "send"
        THEN /\ tasks' = [tasks EXCEPT ![c] = o.task]
             /\ UNCHANGED <<players, roster, conns>>
        ELSE IF o.out = "end" /\ tasks[c].mode = "try"
        THEN /\ tasks' = [tasks EXCEPT ![c] = IdleTask]
             /\ UNCHANGED <<players, roster, conns>>
        ELSE IF o.out = "raise" /\ tasks[c].mode = "try"
        THEN EnterFinally(c, conns[c].player, players, roster, tasks)
        ELSE ClientDone(c, players, roster, tasks)

\* last_count after the one message msg (<<>> when the send raised) was written
CountReceived(msg) ==
    IF msg # <<>> /\ msg[1].action = "update_answer_count"
    THEN [last_count EXCEPT ![msg[1].to] = <<msg[1].answeredCount, msg[1].totalPlayers>>]
    ELSE last_count

\* the handler of c is resumed in its send; `counted` says whether the step
\* keeps the history last_count
SendStep(c, counted) ==
    /\ tasks[c].msg # <<>>
    /\ IF conns[tasks[c].msg[1].to].status = "open"
       THEN /\ sent' = tasks[c].msg
            /\ ClientAdvance(c)
       ELSE /\ sent' = <<>>
            /\ IF tasks[c].mode = "try"
               THEN EnterFinally(c, conns[c].player, players, roster, tasks)
               ELSE ClientDone(c, players, roster, tasks)
    /\ ev' = [NoEvent EXCEPT !.op = "send", !.conn = c, !.name = conns[c].player]
    /\ last_count' = IF counted THEN CountReceived(sent') ELSE last_count
    /\ UNCHANGED <<round_colors, correct_colors, state, round_start_time, songs,
                   used_songs, current_song, spotify_enabled, admin, now, rounds,
                   answered_in_round, first_result, chosen_songs>>

SendNext(c) == SendStep(c, FALSE)

SendNextCounted(c) == SendStep(c, TRUE)

\* a join message is read: add_player, and the handler is in send_game_state(player)
RecvJoin(c, name) ==
    /\ conns[c].status = "open"
    /\ tasks[c].mode = "idle"
    /\ LET P == AddPlayers(players, name, c)
           R == AddRoster(roster, name)
           TS == IF name \in DOMAIN players THEN tasks ELSE KeyAdded(tasks, name)
       IN  /\ players' = P
           /\ roster' = R
           /\ tasks' = [TS EXCEPT ![c] =
                  [IdleTask EXCEPT
                      !.mode = "try",
                      !.msg = <<GameStateMsg(P, R, state, round_colors,
                                             round_start_time, name)>>,
                      !.after = <<"count">>]]
    /\ conns' = [conns EXCEPT ![c].player = name]
    /\ sent' = <<>>
    /\ ev' = [NoEvent EXCEPT !.op = "join", !.conn = c, !.name = name]
    /\ UNCHANGED <<round_colors, correct_colors, state, round_start_time, songs,
                   used_songs, current_song, spotify_enabled, admin, now, rounds,
                   answered_in_round, first_result, chosen_songs, last_count>>

\* a select_color message is read: check_answer, and the handler is in the send
\* of color_result
RecvSelectColor(c, color) ==
    /\ conns[c].status = "open"
    /\ tasks[c].mode = "idle"
    /\ sent' = <<>>
    /\ LET pv == conns[c].player
           d == now - round_start_time
       IN  IF pv = None \/ state # "question"
           THEN /\ UNCHANGED <<players, roster, conns, tasks>>
                /\ ev' = [NoEvent EXCEPT !.op = "select_color", !.conn = c,
                                         !.name = pv, !.color = color]
           ELSE IF pv \notin DOMAIN players
           THEN /\ EnterFinally(c, pv, players, roster, tasks)
                /\ ev' = [NoEvent EXCEPT !.op = "select_color", !.conn = c,
                                         !.name = pv, !.color = color]
           ELSE LET r == check_answer(players, pv, color, d)
                IN  /\ players' = r.players
                    /\ tasks' = [tasks EXCEPT ![c] =
                           [IdleTask EXCEPT
                               !.mode = "try",
                               !.msg = <<ColorResultMsg(c, r.correct, r.score,
                                                        r.players[pv].score)>>,
                               !.subject = pv,
                               !.after = <<"answered", "count">>]]
                    /\ UNCHANGED <<roster, conns>>
                    /\ ev' = [NoEvent EXCEPT !.op = "select_color", !.conn = c,
                                  !.name = pv, !.color = color, !.called = TRUE,
                                  !.path = r.path,
                                  !.correct = r.correct, !.score = r.score,
                                  !.elapsed = d]
    /\ answered_in_round' =
           IF ev'.path = "scored" THEN answered_in_round \cup {ev'.name}
           ELSE answered_in_round
    /\ UNCHANGED <<chosen_songs, last_count>>
    /\ first_result' =
           IF ev'.path = "scored"
           THEN [n \in DOMAIN first_result \cup {ev'.name} |->
                    IF n = ev'.name THEN <<ev'.correct, ev'.score>> ELSE first_result[n]]
           ELSE first_result
    /\ UNCHANGED <<round_colors, correct_colors, state, round_start_time, songs,
                   used_songs, current_song, spotify_enabled, admin, now, rounds>>

\* `async for message in websocket` ends on a closed connection: the finally block
LoopEnds(c) ==
    /\ conns[c].status = "closed"
    /\ tasks[c].mode = "idle"
    /\ EnterFinally(c, conns[c].player, players, roster, tasks)
    /\ sent' = <<>>
    /\ ev' = [NoEvent EXCEPT !.op = "exit", !.conn = c, !.name = conns[c].player]
    /\ UNCHANGED <<round_colors, correct_colors, state, round_start_time, songs,
                   used_songs, current_song, spotify_enabled, admin, now, rounds,
                   answered_in_round, first_result, chosen_songs, last_count>>

\* handle_admin_input runs on from T, on the lobby as the toggle left it
AdminGoes(T, P, st, rc, rst) ==
    \E o \in Advance(T, P, roster, st, rc, rst) :
        /\ tasks' = [tasks EXCEPT ![AdminTask] =
                        IF o.out = "send" THEN o.task ELSE IdleTask]
        /\ admin' = IF o.out = "raise" THEN "dead" ELSE "running"

\* what follows toggle_state in the command loop, up to the first send
AdminBegins(P, st, rc, rst, song) ==
    IF PlaybackCrashes(st, song)
    THEN admin' = "dead" /\ tasks' = tasks
    ELSE AdminGoes([IdleTask EXCEPT !.mode = "cmd", !.after = <<"state", "count">>],
                   P, st, rc, rst)

\* handle_admin_input is resumed in its send
AdminSendStep(counted) ==
    /\ tasks[AdminTask].msg # <<>>
    /\ IF conns[tasks[AdminTask].msg[1].to].status = "open"
       THEN /\ sent' = tasks[AdminTask].msg
            /\ AdminGoes([tasks[AdminTask] EXCEPT !.msg = <<>>], players, state,
                         round_colors, round_start_time)
       ELSE /\ sent' = <<>>
            /\ admin' = "dead"
            /\ tasks' = [tasks EXCEPT ![AdminTask] = IdleTask]
    /\ ev' = [NoEvent EXCEPT !.op = "send", !.conn = AdminTask]
    /\ last_count' = IF counted THEN CountReceived(sent') ELSE last_count
    /\ UNCHANGED <<players, roster, round_colors, correct_colors, state,
                   round_start_time, songs, used_songs, current_song,
                   spotify_enabled, conns, now, rounds, answered_in_round,
                   first_result, chosen_songs>>

AdminSendNext == AdminSendStep(FALSE)

AdminSendNextCounted == AdminSendStep(TRUE)

\* a toggle command is read in state "score": start_new_round
ToggleStartsRound(specified, w, seeds, maxRounds) ==
    /\ admin = "running"
    /\ tasks[AdminTask].mode = "idle"
    /\ state = "score"
    /\ rounds < maxRounds
    /\ \E out \in select_round_colors(specified, w, seeds) :
        /\ round_colors' = out.round_colors
        /\ correct_colors' = out.correct_colors
        /\ current_song' = out.current_song
        /\ IF RoundStarts(out.ok)
           THEN /\ round_start_time' = now
                /\ state' = "question"
                /\ players' = ResetRoundFlags(players)
                /\ rounds' = rounds + 1
                /\ answered_in_round' = {}
                /\ first_result' = <<>>
                /\ chosen_songs' = IF specified = <<>> /\ out.ok
                                   THEN Append(chosen_songs, songs[out.current_song].uri)
                                   ELSE chosen_songs
                /\ AdminBegins(ResetRoundFlags(players), "question", out.round_colors,
                               now, out.current_song)
           ELSE /\ UNCHANGED <<round_start_time, state, players, rounds,
                               answered_in_round, first_result, chosen_songs, last_count>>
                /\ AdminBegins(players, state, out.round_colors, round_start_time,
                               out.current_song)
        /\ ev' = [NoEvent EXCEPT !.op = "toggle", !.specified = specified,
                                 !.ok = out.ok]
    /\ sent' = <<>>
    /\ UNCHANGED <<roster, songs, used_songs, spotify_enabled, conns, now, last_count>>

\* a toggle command is read in state "question": end_round
ToggleEndsRound ==
    /\ admin = "running"
    /\ tasks[AdminTask].mode = "idle"
    /\ state = "question"
    /\ used_songs' = IF current_song # NoSong
                     THEN used_songs \cup {songs[current_song].uri} ELSE used_songs
    /\ current_song' = NoSong
    /\ state' = "score"
    /\ AdminBegins(players, "score", round_colors, round_start_time, NoSong)
    /\ ev' = [NoEvent EXCEPT !.op = "toggle", !.ok = TRUE]
    /\ answered_in_round' = {}
    /\ first_result' = <<>>
    /\ UNCHANGED <<chosen_songs, last_count>>
    /\ sent' = <<>>
    /\ UNCHANGED <<players, roster, round_colors, correct_colors, round_start_time,
                   songs, spotify_enabled, conns, now, rounds>>

(***************************************************************************)
(* The interleaved session: two connections, each joining once under its   *)
(* own name, and one round.                                                *)
(***************************************************************************)
InterleavedRounds == 1
InterleavedInputs == {<<"red">>}
InterleavedNames == <<"Alice", "Bob">>

InitInterleaved == InitWith({<<>>}, {FALSE}, {0})

\* the first join message of a connection, under the connection's name
RecvFirstJoin(c) == conns[c].player = None /\ RecvJoin(c, InterleavedNames[c])

NextInterleaved ==
    \/ \E c \in Conns : RecvFirstJoin(c)
    \/ \E c \in Conns, col \in AnswerColors : RecvSelectColor(c, col)
    \/ \E c \in Conns : ClientClose(c)
    \/ \E c \in Conns : LoopEnds(c)
    \/ \E c \in Conns : SendNext(c)
    \/ \E sp \in InterleavedInputs : ToggleStartsRound(sp, 1, 1, InterleavedRounds)
    \/ ToggleEndsRound
    \/ AdminSendNext

SpecInterleaved == InitInterleaved /\ [][NextInterleaved]_vars

\* the interleaved session with the history of the counts each connection is sent
NextCounts ==
    \/ \E c \in Conns : RecvFirstJoin(c)
    \/ \E c \in Conns, col \in AnswerColors : RecvSelectColor(c, col)
    \/ \E c \in Conns : ClientClose(c)
    \/ \E c \in Conns : LoopEnds(c)
    \/ \E c \in Conns : SendNextCounted(c)
    \/ \E sp \in InterleavedInputs : ToggleStartsRound(sp, 1, 1, InterleavedRounds)
    \/ ToggleEndsRound
    \/ AdminSendNextCounted

SpecCounts == InitInterleaved /\ [][NextCounts]_vars

(***************************************************************************)
(* Two players against a clock that only moves forward: each connection    *)
(* joins once under its own name, and the instants reach whole seconds, a  *)
(* tenth of a second before round_duration, and past it.                   *)
(***************************************************************************)
DecayInstants == {0, 2000, 10000, 49900, 50100}
DecayInputs == {<<"red">>}

InitDecay == InitWith({<<>>}, {FALSE}, {0})

\* the first join message of a connection, under the connection's name
FirstJoin(c) == conns[c].player = None /\ Join(c, InterleavedNames[c])

NextDecay ==
    \/ \E c \in Conns : FirstJoin(c)
    \/ \E c \in Conns, col \in AnswerColors : SelectColor(c, col)
    \/ \E c \in Conns : ClientClose(c)
    \/ \E c \in Conns : HandlerExit(c)
    \/ \E sp \in DecayInputs : StartRound(sp, 1, 1)
    \/ EndRound
    \/ \E t \in DecayInstants : Tick(t)

SpecDecay == InitDecay /\ [][NextDecay]_vars

(***************************************************************************)
(* Two connections that also send messages outside the protocol.           *)
(***************************************************************************)
ProtocolInputs == {<<"red">>}

InitProtocol == InitWith({<<>>}, {FALSE}, {0})

NextProtocol ==
    \/ \E c \in Conns : FirstJoin(c)
    \/ \E c \in Conns, col \in AnswerColors : SelectColor(c, col)
    \/ \E c \in Conns, kind \in MalformedKinds : RecvMalformed(c, kind)
    \/ \E c \in Conns : ClientClose(c)
    \/ \E c \in Conns : HandlerExit(c)
    \/ \E sp \in ProtocolInputs : StartRound(sp, 1, 1)
    \/ EndRound

SpecProtocol == InitProtocol /\ [][NextProtocol]_vars

(***************************************************************************)
(* The command loop with and without the playback integration: toggles in  *)
(* both modes, over a roster whose connections join, close and end.        *)
(***************************************************************************)
AdminInputs == {<<>>, <<"red">>, <<"Teal">>}
AdminCatalogs == {<<RedSong>>}

InitAdmin == InitWith(AdminCatalogs, {TRUE, FALSE}, {0})

NextAdmin ==
    \/ \E c \in Conns : FirstJoin(c)
    \/ \E c \in Conns : ClientClose(c)
    \/ \E c \in Conns : HandlerExit(c)
    \/ \E sp \in AdminInputs : StartRound(sp, 1, 1)
    \/ EndRound

SpecAdmin == InitAdmin /\ [][NextAdmin]_vars

(***************************************************************************)
(* The filler loop with every draw random.choice can make: explicit rounds *)
(* with four correct colors, with a correct color of each confusable       *)
(* group, with five correct colors and with seven.                         *)
(***************************************************************************)
FillInputs ==
    {<<"Red", "Green", "Blue", "Purple">>, <<"Yellow", "Silver", "Red">>,
     <<"Red", "Green", "Blue", "Purple", "Pink">>,
     <<"Red", "Green", "Blue", "Purple", "Pink", "Black", "White">>}

InitFill == InitWith({<<>>}, {FALSE}, {0})

NextFill ==
    \/ \E sp \in FillInputs : StartRound(sp, Len(all_colors), 1)
    \/ EndRound

SpecFill == InitFill /\ [][NextFill]_vars

(***************************************************************************)
(* Properties of check_answer and of the select_color handler.             *)
(***************************************************************************)
\* The step runs check_answer for roster entry n, which is still in the roster after it
Submits(n) ==
    /\ state = "question"
    /\ ev'.op = "select_color" /\ ev'.called /\ ev'.name = n
    /\ n \in DOMAIN players'

Elapsed == now - round_start_time

\* C1: once a player is locked in a round, a further check_answer call for that
\* player (any color, any time) leaves the score, has_answered and answer unchanged.
C1_LockedAnswerStands ==
    [][\A n \in DOMAIN players :
          (Submits(n) /\ players[n].has_answered)
              => /\ players'[n].score = players[n].score
                 /\ players'[n].has_answered = players[n].has_answered
                 /\ players'[n].answer = players[n].answer]_vars

\* a locked player submitted a different color at a later time
C1_Witness ==
    /\ ev.op = "select_color" /\ ev.path = "locked"
    /\ ev.name \in DOMAIN players
    /\ ev.color # players[ev.name].answer
    /\ ev.elapsed > 0

\* C2: a first, in-time submission adds the decayed score when the color is correct
\* and nothing when it is not, and locks the player with the chosen color either way.
C2_FirstSubmissionScoresAndLocks ==
    [][\A n \in DOMAIN players :
          (Submits(n) /\ ~players[n].has_answered /\ Elapsed <= round_duration * 1000)
              => /\ players'[n].score =
                        players[n].score
                            + (IF ev'.color \in Range(correct_colors)
                               THEN DecayedScore(Elapsed) ELSE 0)
                 /\ players'[n].has_answered = TRUE
                 /\ players'[n].answer = ev'.color]_vars

\* an incorrect first submission at a time when the decayed score is positive
C2_Witness ==
    /\ ev.op = "select_color" /\ ev.path = "scored"
    /\ ~ev.correct /\ ev.score > 0
    /\ ev.name \in DOMAIN players
    /\ players[ev.name].has_answered /\ players[ev.name].answer = ev.color

CeilDiv(a, b) == -((-a) \div b)

\* C3 as stated: the decayed score of an in-time first submission is
\* max(0, 5000 - floor(elapsed * 100)), capped at 5000.
C3_FloorOfElapsed ==
    [][\A n \in DOMAIN players :
          (Submits(n) /\ ~players[n].has_answered /\ Elapsed <= 50000)
              => ev'.score =
                    (LET v == 5000 - (Elapsed \div 10)
                     IN  IF v > 5000 THEN 5000 ELSE IF v < 0 THEN 0 ELSE v)]_vars

\* C3 as amended: the decayed score of an in-time first submission is
\* max(0, 5000 - ceil(elapsed * 100)): a started hundredth of a second costs its
\* point, and a negative elapsed time is not capped.
C3_CeilOfElapsed ==
    [][\A n \in DOMAIN players :
          (Submits(n) /\ ~players[n].has_answered /\ Elapsed <= 50000)
              => ev'.score =
                    (LET v == 5000 - CeilDiv(Elapsed, 10)
                     IN  IF v < 0 THEN 0 ELSE v)]_vars

\* a first submission scored at an elapsed time off the hundredths of a second
C3_Witness ==
    /\ ev.op = "select_color" /\ ev.path = "scored"
    /\ ev.elapsed > 0 /\ ev.elapsed % 10 # 0

\* C4: a first submission later than round_duration returns (false, 0) and changes
\* nothing; one at exactly round_duration is accepted and locks the player.
C4_LateSubmissionIsNoOp ==
    [][\A n \in DOMAIN players :
          (Submits(n) /\ ~players[n].has_answered)
              => /\ Elapsed > 50000
                    => (ev'.correct = FALSE /\ ev'.score = 0 /\ players' = players)
                 /\ Elapsed = 50000
                    => (players'[n].has_answered /\ players'[n].answer = ev'.color)]_vars

\* a late submission was made and the player is still unlocked
C4_Witness ==
    /\ ev.op = "select_color" /\ ev.called /\ ev.elapsed > 50000
    /\ ev.name \in DOMAIN players
    /\ ~players[ev.name].has_answered /\ players[ev.name].answer = None

\* the lobby fields a handler can change
lobby == <<players, roster, round_colors, correct_colors, state, round_start_time,
           used_songs, current_song>>

\* C5: a select_color received in state "score", or on a connection that has not
\* joined, changes no lobby field and sends no message.
C5_IgnoredSelectColor ==
    [][(ev'.op = "select_color"
          /\ (state = "score" \/ conns[ev'.conn].player = None))
          => (UNCHANGED lobby /\ sent' = <<>>)]_vars

\* a joined player submitted in state "score" while two players were in the roster
C5_Witness ==
    /\ ev.op = "select_color" /\ ev.name # None /\ ~ev.called
    /\ state = "score"
    /\ Cardinality(DOMAIN players) = 2

(***************************************************************************)
(* Properties of the round selector.                                       *)
(***************************************************************************)
\* C6: the correct colors are among the displayed colors in every state, and the
\* correct set is not empty while the state is "question".
C6_CorrectAmongDisplayed ==
    /\ Range(correct_colors) \subseteq Range(round_colors)
    /\ state = "question" => correct_colors # <<>>

\* a round is on with two correct colors among six displayed
C6_Witness ==
    /\ state = "question"
    /\ Cardinality(Range(correct_colors)) = 2
    /\ Len(round_colors) = 6

SameGroup(a, b) ==
    \/ a \in YellowGroup /\ b \in YellowGroup
    \/ a \in SilverGroup /\ b \in SilverGroup

\* C7: two displayed entries of one confusable group are both correct colors.
C7_OneFillerPerGroup ==
    \A i, j \in DOMAIN round_colors :
        (i # j /\ SameGroup(round_colors[i], round_colors[j]))
            => /\ round_colors[i] \in Range(correct_colors)
               /\ round_colors[j] \in Range(correct_colors)

\* a round displays a filler of each confusable group
C7_Witness ==
    /\ \E i \in DOMAIN round_colors :
          round_colors[i] \in YellowGroup \ Range(correct_colors)
    /\ \E i \in DOMAIN round_colors :
          round_colors[i] \in SilverGroup \ Range(correct_colors)

(***************************************************************************)
(* Properties of the toggle.                                               *)
(***************************************************************************)
\* C8: a toggle in state "score" whose selection fails leaves the state "score",
\* round_start_time, every player, used_songs and current_song as they were, and
\* sends no game_state with state "question".
C8_FailedToggleStaysInScore ==
    [][(ev'.op = "toggle" /\ state = "score" /\ ~ev'.ok)
          => /\ state' = "score"
             /\ round_start_time' = round_start_time
             /\ players' = players
             /\ used_songs' = used_songs
             /\ current_song' = current_song
             /\ \A i \in DOMAIN sent' :
                   ~(sent'[i].action = "game_state" /\ sent'[i].state = "question")]_vars

\* a catalog toggle failed after a round in which a player was locked, and the
\* state was broadcast
C8_Witness ==
    /\ ev.op = "toggle" /\ ~ev.ok /\ ev.specified = <<>>
    /\ state = "score"
    /\ \E n \in DOMAIN players : players[n].has_answered
    /\ sent # <<>>

\* C9: a step from "score" to "question" leaves every player unlocked with no
\* answer, and a step that ends in "score" (the end of a round included) keeps
\* the has_answered and answer of every roster entry.
C9_FlagsResetOnRoundStartOnly ==
    [][/\ (state = "score" /\ state' = "question")
            => \A n \in DOMAIN players' :
                  ~players'[n].has_answered /\ players'[n].answer = None
       /\ state' = "score"
            => \A n \in DOMAIN players \cap DOMAIN players' :
                  /\ players'[n].has_answered = players[n].has_answered
                  /\ players'[n].answer = players[n].answer]_vars

\* the second round has just started and a player who scored in the first is unlocked
C9_Witness ==
    /\ ev.op = "toggle" /\ state = "question" /\ rounds = 2
    /\ \E n \in DOMAIN players : players[n].score > 0 /\ ~players[n].has_answered

\* C10: a toggle in state "question" sets the state to "score", adds the round's
\* song (if any) to used_songs, clears current_song and leaves every player as is.
C10_EndRoundFrame ==
    [][(ev'.op = "toggle" /\ state = "question")
          => /\ state' = "score"
             /\ used_songs' = used_songs \cup
                   (IF current_song # NoSong THEN {songs[current_song].uri} ELSE {})
             /\ current_song' = NoSong
             /\ players' = players]_vars

\* a catalog round with a locked, scored player has just ended
C10_Witness ==
    /\ ev.op = "toggle" /\ ev.ok /\ state = "score"
    /\ used_songs # {}
    /\ \E n \in DOMAIN players : players[n].has_answered /\ players[n].score > 0

(***************************************************************************)
(* Properties of the roster.                                               *)
(***************************************************************************)
\* C11: a join under a name not in the roster creates a Player with score 0,
\* has_answered false and no answer; a join under a name in the roster reuses the
\* Player with its score, has_answered and answer and replaces its connection by
\* the new one; no other roster entry changes.
C11_JoinCreatesOrReuses ==
    [][(ev'.op = "join")
          => LET n == ev'.name
                 c == ev'.conn
                 joined == IF n \in DOMAIN players
                           THEN [score |-> players[n].score, websocket |-> c,
                                 has_answered |-> players[n].has_answered,
                                 answer |-> players[n].answer]
                           ELSE [score |-> 0, websocket |-> c,
                                 has_answered |-> FALSE, answer |-> None]
             IN  /\ AddPlayers(players, n, c)[n] = joined
                 /\ \A m \in DOMAIN players \ {n} :
                       m \in DOMAIN players' /\ players'[m] = players[m]
                 /\ DOMAIN players' \subseteq DOMAIN players \cup {n}
                 /\ conns'[c].status = "open"
                       => (n \in DOMAIN players' /\ players'[n] = joined)]_vars

\* a locked player with a score joined again on another connection while a second
\* player was in the roster
C11_Witness ==
    /\ ev.op = "join" /\ ev.name \in DOMAIN players
    /\ players[ev.name].score > 0 /\ players[ev.name].has_answered
    /\ players[ev.name].websocket = ev.conn
    /\ \E c \in DOMAIN conns : c # ev.conn /\ conns[c].player = ev.name
    /\ Cardinality(DOMAIN players) = 2

\* C12: a disconnect keeps the player's roster entry with its score, has_answered
\* and answer (only the connection handle goes), so a later join under the same
\* name resumes with the score.
C12_DisconnectKeepsEntry ==
    [][(ev'.op = "exit" /\ ev'.name \in DOMAIN players)
          => /\ ev'.name \in DOMAIN players'
             /\ players'[ev'.name].score = players[ev'.name].score
             /\ players'[ev'.name].has_answered = players[ev'.name].has_answered
             /\ players'[ev'.name].answer = players[ev'.name].answer]_vars

\* C13: in one round at most one submission per player name is scored, also when
\* the player disconnects and joins again under the same name during the round.
C13_OneScoredAnswerPerName ==
    [][(ev'.op = "select_color" /\ ev'.path = "scored")
          => ev'.name \notin answered_in_round]_vars

\* C14: when a player who has answered in the current round disconnects, the
\* answered count and the total of get_answer_count, and the counts reported to
\* the remaining clients, do not decrease.
C14_CountSurvivesDisconnect ==
    [][(ev'.op = "exit" /\ ev'.name \in DOMAIN players
            /\ players[ev'.name].has_answered)
          => /\ AnsweredCount(players') >= AnsweredCount(players)
             /\ TotalPlayers(players') >= TotalPlayers(players)
             /\ \A i \in DOMAIN sent' :
                   sent'[i].action \in {"game_state", "update_answer_count"}
                       => /\ sent'[i].answeredCount >= AnsweredCount(players)
                          /\ sent'[i].totalPlayers >= TotalPlayers(players)]_vars

\* C15: in every state get_answer_count returns (answered, total) with
\* 0 <= answered <= total, and answered = total exactly when
\* all_players_answered() is true, the empty roster included.
C15_AnswerCountBounds ==
    /\ 0 <= AnsweredCount(players)
    /\ AnsweredCount(players) <= TotalPlayers(players)
    /\ (AnsweredCount(players) = TotalPlayers(players))
           <=> all_players_answered(players)

\* a round in which both players of the roster are locked
C15_Witness ==
    /\ state = "question"
    /\ TotalPlayers(players) = 2
    /\ all_players_answered(players)

\* C16: no step lowers the score of a roster entry, and the only step that
\* changes the score of an entry is a check_answer call for that entry.
C16_ScoreNeverDecreases ==
    [][\A n \in DOMAIN players \cap DOMAIN players' :
          /\ players'[n].score >= players[n].score
          /\ players'[n].score # players[n].score
                => (ev'.op = "select_color" /\ ev'.called /\ ev'.name = n)]_vars

\* an entry has scored in two rounds, with a second player in the roster
C16_Witness ==
    /\ rounds = 2
    /\ TotalPlayers(players) = 2
    /\ \E n \in DOMAIN players : players[n].score > MaxScore

(***************************************************************************)
(* Properties of the broadcasts.                                           *)
(***************************************************************************)
\* the kinds of message the handler of event e broadcasts to the roster
BroadcastKinds(e) ==
    CASE e.op = "toggle" -> {"game_state", "update_answer_count"}
      [] e.op = "exit" /\ e.name # None -> {"game_state", "update_answer_count"}
      [] e.op = "join" -> {"update_answer_count"}
      [] e.op = "select_color" /\ e.called -> {"player_answered", "update_answer_count"}
      [] OTHER -> {}

\* C17: in every broadcast, each roster entry whose connection is open is sent
\* the message, whether or not a send to another entry's connection failed.
C17_BroadcastReachesEveryOpenConnection ==
    [][\A n \in DOMAIN players' :
          conns'[players'[n].websocket].status = "open"
              => \A k \in BroadcastKinds(ev') :
                    \E i \in DOMAIN sent' :
                        sent'[i].action = k /\ sent'[i].to = players'[n].websocket]_vars

\* the roster entries, other than the event's own, whose connection is not open:
\* a send to one of them fails
FailedTargets(e) ==
    {n \in DOMAIN players \ {e.name} : conns[players[n].websocket].status # "open"}

\* C18: when a broadcast meets roster entries whose send fails, exactly those
\* entries are removed from the roster; every other entry stays, the handler that
\* ran the broadcast goes on, and so does the admin's command loop.
C18_FailedSendDisconnectsOnlyItsPlayer ==
    [][(BroadcastKinds(ev') # {} /\ FailedTargets(ev') # {})
          => /\ \A y \in FailedTargets(ev') : y \notin DOMAIN players'
             /\ \A m \in DOMAIN players \ FailedTargets(ev') :
                   ~(ev'.op = "exit" /\ m = ev'.name) => m \in DOMAIN players'
             /\ ev'.op \in {"join", "select_color"}
                   => /\ conns'[ev'.conn].status = "open"
                      /\ ev'.name \in DOMAIN players'
             /\ admin' = admin]_vars

(***************************************************************************)
(* Properties of the interleaving of the handlers.                         *)
(***************************************************************************)
\* C19: while a coroutine is inside an event (between the event's state change
\* and the end of its last broadcast send), no step of another coroutine changes
\* the roster or a round field.
C19_EventsAreAtomic ==
    [][\A t \in Tasks :
          (tasks[t].mode # "idle" /\ ev'.conn # t) => UNCHANGED lobby]_vars

\* C20: however the handlers of distinct players interleave, a first in-time
\* submission locks its own player with its own answer and score and leaves every
\* other entry alone, the sends in between change no entry, and in a round the
\* locked players are those whose submission was scored (so get_answer_count
\* counts them): the state is that of the submissions run one after the other.
C20_ConcurrentSubmissionsSerialize ==
    [][/\ \A n \in DOMAIN players :
            (Submits(n) /\ ~players[n].has_answered /\ Elapsed <= round_duration * 1000)
                => players' = [players EXCEPT ![n] =
                       [score |-> players[n].score
                                     + (IF ev'.color \in Range(correct_colors)
                                        THEN DecayedScore(Elapsed) ELSE 0),
                        websocket |-> players[n].websocket,
                        has_answered |-> TRUE,
                        answer |-> ev'.color]]
       /\ ev'.op \in {"select_color", "send"}
            => \A m \in (DOMAIN players \cap DOMAIN players') \ {ev'.name} :
                  players'[m] = players[m]
       /\ ev'.op = "send"
            => \A m \in DOMAIN players \cap DOMAIN players' : players'[m] = players[m]
       /\ state' = "question"
            => /\ \A n \in DOMAIN players' :
                     players'[n].has_answered <=> n \in answered_in_round'
               /\ AnsweredCount(players') =
                     Cardinality(answered_in_round' \cap DOMAIN players')]_vars

\* a submission was scored while the handler of another player's submission was
\* still suspended in its sends, and the two players are locked with different colors
C20_Witness ==
    /\ ev.op = "select_color" /\ ev.path = "scored"
    /\ \E c \in Conns :
          /\ c # ev.conn
          /\ tasks[c].mode = "try" /\ tasks[c].subject \in DOMAIN players
          /\ tasks[c].subject # ev.name
          /\ players[tasks[c].subject].has_answered
          /\ players[tasks[c].subject].answer # ev.color
    /\ ev.name \in DOMAIN players /\ players[ev.name].answer = ev.color

(***************************************************************************)
(* Properties of the messages.                                             *)
(***************************************************************************)
\* the game_state payload of roster entry n computed on the state after the step
FreshGameState(n) ==
    GameStateMsg(players', roster', state', round_colors', round_start_time', n)

\* the step is a join, a disconnect, a toggle or a submission that check_answer saw
SessionEvent ==
    \/ ev'.op \in {"join", "toggle"}
    \/ ev'.op = "exit" /\ ev'.name # None
    \/ ev'.op = "select_color" /\ ev'.called

Disconnects ==
    /\ ev'.op \in {"join", "select_color", "exit"} /\ ev'.name # None
    /\ conns'[ev'.conn].status = "done"

\* the entries of the roster after the step up to the first whose send fails
ReachedByBroadcast ==
    {roster'[k] : k \in {j \in DOMAIN roster' :
        \A h \in 1..j : conns[players'[roster'[h]].websocket].status = "open"}}

RosterAtSend(i) ==
    IF ev'.op = "join" /\ i = 1 THEN AddPlayers(players, ev'.name, ev'.conn)
    ELSE players'

\* C22: every game_state payload carries colors and roundStartTime exactly in
\* state "question" and the leaderboard exactly in state "score"; its score,
\* hasAnswered and answer are those of a roster entry bound to the connection it
\* is sent on, and its counts are get_answer_count() when it is built.
C22_GameStatePayload ==
    [][\A i \in DOMAIN sent' :
          sent'[i].action = "game_state"
              => /\ sent'[i].state = state'
                 /\ (sent'[i].colors # Null) <=> (sent'[i].state = "question")
                 /\ (sent'[i].roundStartTime # NoTime) <=> (sent'[i].state = "question")
                 /\ (sent'[i].leaderboard # Null) <=> (sent'[i].state = "score")
                 /\ sent'[i].state = "question"
                       => /\ sent'[i].colors = Some(round_colors')
                          /\ sent'[i].roundStartTime = round_start_time'
                 /\ \E n \in DOMAIN RosterAtSend(i) :
                       /\ RosterAtSend(i)[n].websocket = sent'[i].to
                       /\ sent'[i].score = RosterAtSend(i)[n].score
                       /\ sent'[i].hasAnswered = RosterAtSend(i)[n].has_answered
                       /\ sent'[i].answer = RosterAtSend(i)[n].answer
                 /\ sent'[i].answeredCount = AnsweredCount(RosterAtSend(i))
                 /\ sent'[i].totalPlayers = TotalPlayers(RosterAtSend(i))]_vars

\* during a round a locked player with a score was sent a game_state
C22_Witness ==
    /\ state = "question"
    /\ \E i \in DOMAIN sent :
          /\ sent[i].action = "game_state"
          /\ sent[i].hasAnswered /\ sent[i].score > 0
          /\ sent[i].answeredCount = 1

\* the messages of a sequence that go to connections other than c
ToOthers(msgs, c) == SelectSeq(msgs, LAMBDA m : m.to # c)

\* the roster after a submission by pv as far as it does not depend on the
\* submitted color: pv is locked unless it was locked already or is late
LockedWhateverColor(pv) ==
    [players EXCEPT ![pv].has_answered = @ \/ ~IsLate(Elapsed)]

\* what a submission by pv on connection c sends, computed without the color
SentWhateverColor(c, pv) ==
    LET P == LockedWhateverColor(pv)
        try == <<ColorResultMsg(c, FALSE, 0, 0)>>
                   \o broadcast_player_answered(P, roster, pv)
                   \o broadcast_answer_count(P, roster)
        P2 == RemovePlayers(P, pv)
        R2 == RemoveRoster(roster, pv)
        fin == broadcast_game_state(P2, R2, state, round_colors, round_start_time)
                   \o broadcast_answer_count(P2, R2)
    IN  IF Raised(try) THEN Delivered(try) \o Delivered(fin) ELSE try

\* C23: color_result goes to the submitting connection only, and what a
\* submission sends to the other connections is determined without the submitted
\* color: it is the same for a correct and for an incorrect color.
C23_OthersLearnNoCorrectness ==
    [][(ev'.op = "select_color" /\ ev'.called)
          => /\ \A i \in DOMAIN sent' :
                   sent'[i].action = "color_result" => sent'[i].to = ev'.conn
             /\ ToOthers(sent', ev'.conn)
                   = ToOthers(SentWhateverColor(ev'.conn, ev'.name), ev'.conn)]_vars

\* a correct submission was scored and another connection was sent the notice
\* and the count
C23_Witness ==
    /\ ev.op = "select_color" /\ ev.path = "scored" /\ ev.correct
    /\ \E i, j \in DOMAIN sent :
          /\ sent[i].to # ev.conn /\ sent[i].action = "player_answered"
          /\ sent[j].to # ev.conn /\ sent[j].action = "update_answer_count"

\* C24: a submission by a player already locked in the round returns the pair
\* (is_correct, score) that the player's scored submission of the round returned.
C24_LockedReturnsFirstResult ==
    [][(/\ ev'.op = "select_color" /\ ev'.called /\ ev'.path = "locked"
        /\ ev'.name \in DOMAIN first_result)
          => <<ev'.correct, ev'.score>> = first_result[ev'.name]]_vars

\* C25: an in-time first submission of a color outside the correct set returns
\* the score 0, and color_result reports 0, whatever the decayed value is.
C25_IncorrectScoresZero ==
    [][(/\ ev'.op = "select_color" /\ ev'.called /\ ev'.path = "scored"
        /\ ~ev'.correct)
          => /\ ev'.score = 0
             /\ \A i \in DOMAIN sent' :
                   sent'[i].action = "color_result" => sent'[i].score = 0]_vars

\* C26 as stated: within [0, round_duration] a correct first submission is
\* awarded max(0, 5000 - 100 * floor(elapsed seconds)), in whole-second steps,
\* and a submission after round_duration is rejected as late with score 0.
C26_WholeSecondSteps ==
    [][\A n \in DOMAIN players :
          (/\ Submits(n) /\ ~players[n].has_answered
           /\ ev'.color \in Range(correct_colors) /\ Elapsed >= 0)
              => IF Elapsed <= 50000
                 THEN /\ ev'.score = 5000 - 100 * (Elapsed \div 1000)
                      /\ players'[n].score = players[n].score + ev'.score
                 ELSE /\ ev'.path = "late" /\ ev'.score = 0
                      /\ players'[n] = players[n]]_vars

\* C26 as amended: the award is 5000 - ceil(100 * elapsed seconds): one point per
\* started hundredth of a second (0 s gives 5000, 2 s 4800, 10 s 4000, 49.9 s
\* 10); after round_duration the submission is late and scores 0.
C26_PointPerHundredth ==
    [][\A n \in DOMAIN players :
          (/\ Submits(n) /\ ~players[n].has_answered
           /\ ev'.color \in Range(correct_colors) /\ Elapsed >= 0)
              => IF Elapsed <= 50000
                 THEN /\ ev'.score = 5000 - CeilDiv(Elapsed, 10)
                      /\ players'[n].score = players[n].score + ev'.score
                      /\ Elapsed = 0 => ev'.score = 5000
                      /\ Elapsed = 2000 => ev'.score = 4800
                      /\ Elapsed = 10000 => ev'.score = 4000
                      /\ Elapsed = 49900 => ev'.score = 10
                 ELSE /\ ev'.path = "late" /\ ev'.score = 0
                      /\ players'[n] = players[n]]_vars

\* a correct first submission was scored 49.9 s into the round
C26_Witness ==
    /\ ev.op = "select_color" /\ ev.path = "scored" /\ ev.correct
    /\ ev.elapsed = 49900 /\ ev.score = 10

\* C27: with one explicit correct color, a player who answers it in time is
\* credited the decayed score of its own elapsed time, whatever the other players
\* have submitted (0 s on a total of 0 gives 5000, 2 s gives 4800) and their
\* entries stay as they are; its color_result has correct = true; and once every
\* player has answered, the answer count is answered = total = number of players.
C27_IndependentCredit ==
    [][\A n \in DOMAIN players :
          (/\ Submits(n) /\ ~players[n].has_answered
           /\ Len(correct_colors) = 1 /\ ev'.color = correct_colors[1]
           /\ Elapsed >= 0 /\ Elapsed <= 50000)
              => /\ players'[n].score
                       = players[n].score + (5000 - CeilDiv(Elapsed, 10))
                 /\ (players[n].score = 0 /\ Elapsed = 0) => players'[n].score = 5000
                 /\ (players[n].score = 0 /\ Elapsed = 2000) => players'[n].score = 4800
                 /\ \A m \in DOMAIN players \ {n} :
                       m \in DOMAIN players' /\ players'[m] = players[m]
                 /\ sent'[1].action = "color_result" /\ sent'[1].to = ev'.conn
                 /\ sent'[1].correct
                 /\ all_players_answered(players')
                       => LET last == sent'[Len(sent')]
                          IN  /\ last.action = "update_answer_count"
                              /\ last.answeredCount = Cardinality(DOMAIN players')
                              /\ last.totalPlayers = Cardinality(DOMAIN players')]_vars

\* Alice answered the correct color at 0 s, Bob at 2 s with Alice already locked:
\* the totals are 5000 and 4800 and the count sent last is 2 of 2
C27_Witness ==
    /\ ev.op = "select_color" /\ ev.path = "scored" /\ ev.correct
    /\ ev.name = "Bob" /\ ev.elapsed = 2000
    /\ DOMAIN players = {"Alice", "Bob"}
    /\ players["Alice"].score = 5000 /\ players["Bob"].score = 4800
    /\ sent # <<>>
    /\ sent[Len(sent)].action = "update_answer_count"
    /\ sent[Len(sent)].answeredCount = 2 /\ sent[Len(sent)].totalPlayers = 2

\* C28: a join under a new name during a round is answered first with a game_state
\* of state "question" carrying the round's displayed colors, hasAnswered = false
\* and the counts of a roster that includes the joiner; the join leaves the lock
\* state of every other player and every field of the round as they were.
C28_JoinDuringRound ==
    [][(ev'.op = "join" /\ ev'.name \notin DOMAIN players /\ state = "question")
          => /\ sent' # <<>>
             /\ LET g == sent'[1]
                IN  /\ g.action = "game_state" /\ g.to = ev'.conn
                    /\ g.state = "question"
                    /\ g.colors = Some(round_colors)
                    /\ g.hasAnswered = FALSE /\ g.answer = None
                    /\ g.answeredCount = AnsweredCount(players)
                    /\ g.totalPlayers = Cardinality(DOMAIN players) + 1
             /\ \A m \in DOMAIN players :
                   /\ m \in DOMAIN players'
                   /\ players'[m].has_answered = players[m].has_answered
                   /\ players'[m].answer = players[m].answer
                   /\ players'[m].score = players[m].score
             /\ UNCHANGED <<state, round_colors, correct_colors, round_start_time,
                            used_songs, current_song>>]_vars

\* Bob joined a round in which Alice is locked, and was told 1 of 2
C28_Witness ==
    /\ ev.op = "join" /\ ev.name = "Bob" /\ state = "question"
    /\ "Alice" \in DOMAIN players /\ players["Alice"].has_answered
    /\ sent # <<>> /\ sent[1].action = "game_state"
    /\ sent[1].hasAnswered = FALSE
    /\ sent[1].answeredCount = 1 /\ sent[1].totalPlayers = 2

(***************************************************************************)
(* Properties of the round's fields.                                       *)
(***************************************************************************)
\* C29: only a toggle changes the state: a join, a disconnect and a submission
\* (at any elapsed time, past the round's duration and with every player locked
\* included) leave state, round_colors, correct_colors, round_start_time,
\* used_songs and current_song unchanged.
C29_OnlyToggleChangesRound ==
    [][/\ state' # state => ev'.op = "toggle"
       /\ ev'.op \in {"join", "select_color", "close", "exit"}
             => UNCHANGED <<state, round_colors, correct_colors, round_start_time,
                            used_songs, current_song>>]_vars

\* a submission more than round_duration into a round whose two players are
\* locked, and the round is still active
C29_Witness ==
    /\ ev.op = "select_color" /\ ev.called /\ ev.elapsed > 50000
    /\ TotalPlayers(players) = 2 /\ all_players_answered(players)
    /\ state = "question"

(***************************************************************************)
(* Properties of the message loop.                                         *)
(***************************************************************************)
\* C30: a malformed or unrecognized message (invalid JSON, no action, an unknown
\* action, join without name, select_color without color) is ignored: the
\* connection's handler goes on to the next message, and the roster, with the
\* sender's entry, its score and its lock state, is as before.
C30_MalformedIsIgnored ==
    [][ev'.op = "malformed"
          => /\ conns'[ev'.conn] = conns[ev'.conn]
             /\ players' = players
             /\ roster' = roster]_vars

(***************************************************************************)
(* Properties of the catalog.                                              *)
(***************************************************************************)
\* C31: used_songs only grows, and a key enters it only when a toggle ends the
\* round whose current_song has that key: not at a round's start, not by a toggle
\* that fails, and current_song is the entry chosen at the start of the round.
C31_UsedSongsGrowsAtRoundEnd ==
    [][/\ used_songs \subseteq used_songs'
       /\ used_songs' # used_songs
             => /\ ev'.op = "toggle" /\ state = "question" /\ state' = "score"
                /\ current_song # NoSong
                /\ used_songs' = used_songs \cup {songs[current_song].uri}
       /\ (ev'.op = "toggle" /\ state = "score")
             => /\ used_songs' = used_songs
                /\ (state' = "question" /\ ev'.specified = <<>>)
                      => (current_song' \in AvailableSongs /\ current_song = NoSong)
       /\ (state = "question" /\ state' = "question")
             => current_song' = current_song]_vars

\* a catalog round was ended and its key is in used_songs, and the next toggle
\* has started an explicit round
C31_Witness ==
    /\ used_songs # {} /\ state = "question" /\ ev.op = "toggle"
    /\ current_song = NoSong

\* C32: no catalog key is the entry of more than one started round: the entry
\* chosen at a catalog round's start has a key outside used_songs, the keys of the
\* started catalog rounds are pairwise distinct, and there are never more of them
\* than distinct keys in the catalog.
C32_KeyChosenAtMostOnce ==
    [][/\ (ev'.op = "toggle" /\ state = "score" /\ state' = "question"
           /\ ev'.specified = <<>>)
             => /\ current_song' # NoSong
                /\ songs[current_song'].uri \notin used_songs
                /\ songs[current_song'].uri \notin Range(chosen_songs)
       /\ \A i, j \in DOMAIN chosen_songs' :
             i # j => chosen_songs'[i] # chosen_songs'[j]
       /\ Len(chosen_songs')
             <= Cardinality({songs[i].uri : i \in DOMAIN songs})]_vars

\* the catalog's only entry has been played, and a bare toggle has failed
C32_Witness ==
    /\ Len(chosen_songs) = 1 /\ used_songs = Range(chosen_songs)
    /\ state = "score" /\ ev.op = "toggle" /\ ev.specified = <<>> /\ ~ev.ok

(***************************************************************************)
(* Properties of the command loop.                                         *)
(***************************************************************************)
\* C33: after any toggle command (explicit or catalog, playback enabled or not,
\* the selection succeeding or failing, a broadcast send failing or not) the
\* command loop is still running and takes the next command.
C33_AdminLoopSurvives ==
    [][ev'.op = "toggle" => admin' = "running"]_vars

(***************************************************************************)
(* Properties of the roster's connection handles.                          *)
(***************************************************************************)
\* C34: a roster entry that holds a connection holds one whose handler is still
\* running: once a handler has finished its cleanup no entry references its
\* connection, whatever names the connection joined under.
C34_NoHandleOfFinishedHandler ==
    \A n \in DOMAIN players :
        players[n].websocket # NoSocket
            => conns[players[n].websocket].status # "done"

(***************************************************************************)
(* Properties of the displayed colors.                                     *)
(***************************************************************************)
\* C35: a started round displays exactly 6 options when the resolved correct list
\* has at most 6 entries (the fillers never run out before the target), and
\* displays the correct list alone, with no filler, when it has more than 6.
C35_SixDisplayedOrAllCorrect ==
    state = "question"
        => IF Len(correct_colors) <= 6
           THEN Len(round_colors) = 6
           ELSE /\ Len(round_colors) = Len(correct_colors)
                /\ Range(round_colors) = Range(correct_colors)

\* a round with four correct colors whose two fillers were drawn one from each
\* confusable group
C35_Witness ==
    /\ state = "question" /\ Len(correct_colors) = 4 /\ Len(round_colors) = 6
    /\ \E i, j \in DOMAIN round_colors :
          /\ round_colors[i] \in YellowGroup \ Range(correct_colors)
          /\ round_colors[j] \in SilverGroup \ Range(correct_colors)

\* C36: when a name of the roster has joined on a new connection and the old
\* connection's handler ends, the roster entry stays as it is, bound to the new
\* connection, and a select_color of a joined connection during a round finds its
\* player's name in the roster.
C36_SupersededCloseKeepsEntry ==
    [][/\ (/\ ev'.op = "exit" /\ ev'.name \in DOMAIN players
           /\ players[ev'.name].websocket # ev'.conn)
             => /\ ev'.name \in DOMAIN players'
                /\ players'[ev'.name] = players[ev'.name]
       /\ (/\ ev'.op = "select_color" /\ state = "question"
           /\ conns[ev'.conn].player # None)
             => conns[ev'.conn].player \in DOMAIN players]_vars

(***************************************************************************)
(* Properties of the notices.                                              *)
(***************************************************************************)
\* C37 as stated: a player_answered notice is sent only by the submission that
\* locks the named player: a late submission and a submission by a locked player
\* send none, so a player is named at most once per round.
C37_NoticeOnlyWhenLocking ==
    [][\A i \in DOMAIN sent' :
          sent'[i].action = "player_answered"
              => /\ ev'.op = "select_color" /\ ev'.path = "scored"
                 /\ sent'[i].playerName = ev'.name]_vars

\* C37 as amended: a player_answered notice is sent only by a select_color that
\* reached check_answer, and names the submitting player; every such submission
\* sends it, to every connected roster entry when no send raises, whether
\* check_answer locked the player, found it locked, or rejected the submission
\* as late (the player is then not locked).
C37_NoticeOnEveryCheckedSubmission ==
    [][/\ \A i \in DOMAIN sent' :
             sent'[i].action = "player_answered"
                 => /\ ev'.op = "select_color" /\ ev'.called
                    /\ sent'[i].playerName = ev'.name
       /\ (ev'.op = "select_color" /\ ev'.called)
             => /\ ev'.path \in {"scored", "locked", "late"}
                /\ ev'.path = "locked" => players[ev'.name].has_answered
                /\ ev'.path = "late" => ~players[ev'.name].has_answered
                /\ conns'[ev'.conn].status = "open"
                      => \A n \in DOMAIN players :
                            players[n].websocket # NoSocket
                                => \E i \in DOMAIN sent' :
                                      sent'[i] = PlayerAnsweredMsg(players[n].websocket,
                                                                   ev'.name)]_vars

\* a late submission, which locked nobody, sent the notice to the other player
C37_Witness ==
    /\ ev.op = "select_color" /\ ev.path = "late"
    /\ ev.name \in DOMAIN players /\ ~players[ev.name].has_answered
    /\ \E i \in DOMAIN sent :
          /\ sent[i].action = "player_answered" /\ sent[i].playerName = ev.name
          /\ sent[i].to # ev.conn

\* C38: a client is sent the update_answer_count messages in the order of the
\* changes they report: when every handler is idle (and no connection has closed)
\* the last count a connection was sent is the current get_answer_count.
C38_LastCountIsCurrent ==
    (/\ \A t \in Tasks : tasks[t].mode = "idle"
     /\ \A c \in Conns : conns[c].status = "open")
        => \A c \in Conns :
              last_count[c] # <<>>
                  => last_count[c] = <<AnsweredCount(players), TotalPlayers(players)>>

\* the catalog entries random.choice can pick whose color tags resolve / do not
UnusedResolving == {i \in AvailableSongs : ResolveAll(songs[i].colors) # <<>>}
UnusedUnresolved == {i \in AvailableSongs : ResolveAll(songs[i].colors) = <<>>}

CatalogToggle == state = "score" /\ ev'.op = "toggle" /\ ev'.specified = <<>>

CanToggle == admin = "running" /\ state = "score" /\ rounds < MaxRounds

\* C39 as stated: a bare toggle in state "score" starts a round whenever some
\* entry not in used_songs has a color tag that resolves, whichever entry
\* random.choice picks.
C39_StartsWheneverSomeEntryResolves ==
    [][(CatalogToggle /\ UnusedResolving # {}) => state' = "question"]_vars

\* C39 as amended: a bare toggle in state "score" starts a round exactly when the
\* entry random.choice picks among those not in used_songs has a color tag that
\* resolves: a started round plays such an entry, a failed toggle leaves the
\* state at "score" and used_songs alone and happens only when no entry is left
\* or an unused entry resolves to nothing; every unused entry can be the pick, so
\* the toggle can start a round with each resolving one and can fail as long as
\* an unresolved one is unused, whatever the other entries are.
C39_StartsIffPickedEntryResolves ==
    /\ [][CatalogToggle =>
             /\ ev'.ok <=> state' = "question"
             /\ ev'.ok => current_song' \in UnusedResolving
             /\ ~ev'.ok => /\ state' = "score" /\ used_songs' = used_songs
                           /\ (AvailableSongs = {} \/ UnusedUnresolved # {})]_vars
    /\ [](CanToggle =>
             /\ \A i \in UnusedResolving :
                   \E out \in select_round_colors(<<>>, 1, 1) :
                       RoundStarts(out.ok) /\ out.current_song = i
             /\ UnusedUnresolved # {} =>
                   \E out \in select_round_colors(<<>>, 1, 1) : ~RoundStarts(out.ok))

\* a bare toggle failed while an entry whose colors resolve was still unused
C39_Witness ==
    /\ ev.op = "toggle" /\ ev.specified = <<>> /\ ~ev.ok
    /\ state = "score"
    /\ UnusedResolving # {} /\ UnusedUnresolved # {}

NoNameTwice(x) == \A i, j \in DOMAIN x : x[i] = x[j] => i = j

\* C40: in every started round no color name occurs twice among the displayed
\* options and none occurs twice in the correct colors, whatever list the admin
\* typed (a name repeated, or repeated in another letter case) or the entry's
\* tags are.
C40_NoColorTwice ==
    state = "question" => NoNameTwice(round_colors) /\ NoNameTwice(correct_colors)

====
